---- MODULE Spec2Model ----
(***************************************************************************)
(* Vault consistency model of prompt-base-ui.                              *)
(*                                                                         *)
(* Local Vault Store   : src/src/utils/localStorage.ts                     *)
(* Home page           : src/unnamed/part_003 lines 16-361 (HomePage)      *)
(* Vault page          : src/unnamed/part_003 lines 470-1050 (VaultPage)   *)
(* Prompt list (cards) : src/unnamed/part_008 (PromptList)                 *)
(* Detail modal        : src/src/components/PromptDetailModal.tsx          *)
(*                                                                         *)
(* A Prompt is a record with the field prompt_id and the optional field    *)
(* comment_count (types: `comment_count?: number`).  The vault logic only  *)
(* copies the other fields (title, content, username, tags, created_at,    *)
(* updated_at) together with comment_count, so comment_count is the one    *)
(* server-provided field value the model carries.                          *)
(***************************************************************************)
EXTENDS Integers, Sequences, FiniteSets, TLC

\* ------------------------------------------------------------------ bounds
MaxCount == 1
MaxVersion == 2
MaxTextLen == 2
MaxTime == 2

Ids == {"A", "B"}
NoId == "none"
Codes == {"code1"}

\* ------------------------------------------------------------- data model
\* a prompt as the server sends it; comment_count is always present in server
\* data (an absent count reads as 0 in every handler: `p.comment_count || 0`)
PromptsOf(i) ==
  {[prompt_id |-> i, comment_count |-> c] : c \in 0..MaxCount}

Prompts == UNION {PromptsOf(i) : i \in Ids}

\* `p.comment_count || 0`
CountOf(p) == IF "comment_count" \in DOMAIN p THEN p.comment_count ELSE 0

\* `{ ...p, comment_count: c }`
WithCount(p, c) ==
  [k \in DOMAIN p \cup {"comment_count"} |->
     IF k = "comment_count" THEN c ELSE p[k]]

\* `{ ...p, ...u }`
MergeSpread(p, u) ==
  [k \in DOMAIN p \cup DOMAIN u |-> IF k \in DOMAIN u THEN u[k] ELSE p[k]]

MathMax0_noClamp(n) == n

\* `Math.max(0, n)`
MathMax0(n) == IF n < 0 THEN 0 ELSE n

IdsOf(list) == {list[i].prompt_id : i \in 1..Len(list)}

\* `list.map(p => p.prompt_id)`
IdSeqOf(list) == [i \in 1..Len(list) |-> list[i].prompt_id]

\* `list.findIndex(p => p.prompt_id === id)`, 0 when the code yields -1
FindIndex(list, id) ==
  IF \E i \in 1..Len(list) : list[i].prompt_id = id
  THEN CHOOSE i \in 1..Len(list) :
         /\ list[i].prompt_id = id
         /\ \A j \in 1..(i - 1) : list[j].prompt_id # id
  ELSE 0

\* `list.filter(p => p.prompt_id !== id)`
FilterOut(list, id) ==
  LET Keep(p) == p.prompt_id # id IN SelectSeq(list, Keep)

\* -------------------------------------------------- localStorage (browser)
\* The value under VAULT_KEY: absent, the JSON text of an array, a text that
\* JSON.parse rejects, or the JSON text of a value that is not an array.
AbsentItem == [kind |-> "absent"]
JSONstringify(list) == [kind |-> "array", value |-> list]
UnparseableItem == [kind |-> "text"]
NonListItem(v) == [kind |-> "json", json |-> v]

StorageModes == {"ok", "quota", "unavailable"}

\* getVaultPrompts: [] when the key is absent or when getItem or JSON.parse
\* throws; otherwise whatever JSON.parse returned, cast to Prompt[]
getVaultPrompts(item, mode) ==
  IF mode = "unavailable" THEN <<>>
  ELSE IF item.kind = "array" THEN item.value
  ELSE IF item.kind = "json" THEN [json |-> item.json]
  ELSE <<>>

\* Array.isArray(getVaultPrompts())
ReturnsArray(item, mode) == mode = "unavailable" \/ item.kind # "json"

savePromptToVault_append(item, mode, promptToSave) ==
  IF mode = "ok"
  THEN [item |-> JSONstringify(Append(getVaultPrompts(item, mode), promptToSave)),
        ret |-> TRUE]
  ELSE [item |-> item, ret |-> FALSE]

savePromptToVault_keepExisting(item, mode, promptToSave) ==
  LET currentVault == getVaultPrompts(item, mode)
      updated == IF FindIndex(currentVault, promptToSave.prompt_id) > 0
                 THEN currentVault
                 ELSE Append(currentVault, promptToSave)
  IN IF mode = "ok"
     THEN [item |-> JSONstringify(updated), ret |-> TRUE]
     ELSE [item |-> item, ret |-> FALSE]

savePromptToVault_moveToEnd(item, mode, promptToSave) ==
  LET currentVault == getVaultPrompts(item, mode)
      updated == Append(FilterOut(currentVault, promptToSave.prompt_id),
                        promptToSave)
  IN IF mode = "ok"
     THEN [item |-> JSONstringify(updated), ret |-> TRUE]
     ELSE [item |-> item, ret |-> FALSE]

savePromptToVault_noRead(item, mode, promptToSave) ==
  IF mode = "ok"
  THEN [item |-> JSONstringify(<<promptToSave>>), ret |-> TRUE]
  ELSE [item |-> item, ret |-> FALSE]

\* savePromptToVault: replace in place or append; false when setItem throws or
\* when getVaultPrompts() returned a value without findIndex (TypeError, caught)
savePromptToVault(item, mode, promptToSave) ==
  IF ~ReturnsArray(item, mode)
  THEN [item |-> item, ret |-> FALSE]
  ELSE LET currentVault == getVaultPrompts(item, mode)
           existingIndex == FindIndex(currentVault, promptToSave.prompt_id)
           updated == IF existingIndex > 0
                      THEN [currentVault EXCEPT ![existingIndex] = promptToSave]
                      ELSE Append(currentVault, promptToSave)
       IN IF mode = "ok"
          THEN [item |-> JSONstringify(updated), ret |-> TRUE]
          ELSE [item |-> item, ret |-> FALSE]

removePromptFromVault_alwaysTrue(item, mode, promptId) ==
  IF mode = "ok"
  THEN [item |-> JSONstringify(FilterOut(getVaultPrompts(item, mode), promptId)),
        ret |-> TRUE]
  ELSE [item |-> item, ret |-> FALSE]

\* removePromptFromVault: true only when an entry was filtered out and written;
\* false also when getVaultPrompts() returned a value without filter (TypeError,
\* caught)
removePromptFromVault(item, mode, promptId) ==
  IF ~ReturnsArray(item, mode)
  THEN [item |-> item, ret |-> FALSE]
  ELSE LET currentVault == getVaultPrompts(item, mode)
           updatedVault == FilterOut(currentVault, promptId)
       IN IF Len(updatedVault) < Len(currentVault)
          THEN IF mode = "ok"
               THEN [item |-> JSONstringify(updatedVault), ret |-> TRUE]
               ELSE [item |-> item, ret |-> FALSE]
          ELSE [item |-> item, ret |-> FALSE]

\* isPromptInVault: `currentVault.some` outside any try/catch is a TypeError
\* when getVaultPrompts() returned a value that is not an array
isPromptInVault_throws(item, mode) == ~ReturnsArray(item, mode)

\* isPromptInVault
isPromptInVault(item, mode, promptId) ==
  LET currentVault == getVaultPrompts(item, mode)
  IN \E i \in 1..Len(currentVault) : currentVault[i].prompt_id = promptId

clearVault_noCatch(item, mode) ==
  IF mode = "unavailable"
  THEN [item |-> item, threw |-> TRUE]
  ELSE [item |-> AbsentItem, threw |-> FALSE]

\* clearVault: removeItem inside try/catch; threw is what reaches the caller
clearVault(item, mode) ==
  IF mode = "unavailable"
  THEN [item |-> item, threw |-> FALSE]
  ELSE [item |-> AbsentItem, threw |-> FALSE]

\* prompt modification codes (PROMPT_CODES_KEY): a map id -> code
NoCode == "none"
getPromptCode(codes, mode, promptId) ==
  IF mode = "unavailable" THEN NoCode ELSE codes[promptId]

savePromptCode_freshMap(codes, mode, promptId, code) ==
  IF mode = "ok"
  THEN [i \in DOMAIN codes |-> IF i = promptId THEN code ELSE NoCode]
  ELSE codes

savePromptCode(codes, mode, promptId, code) ==
  IF mode = "ok" THEN [codes EXCEPT ![promptId] = code] ELSE codes

removePromptCode(codes, mode, promptId) ==
  IF mode = "ok" /\ codes[promptId] # NoCode
  THEN [codes EXCEPT ![promptId] = NoCode]
  ELSE codes

\* comment modification codes (COMMENT_CODES_KEY): a map comment id -> code
CommentIds == {"c1"}
getCommentCode(codes, mode, commentId) ==
  IF mode = "unavailable" THEN NoCode ELSE codes[commentId]

saveCommentCode_sharedMap(codes, mode, commentId, code) ==
  IF mode = "ok" THEN [c \in DOMAIN codes |-> code] ELSE codes

saveCommentCode(codes, mode, commentId, code) ==
  IF mode = "ok" THEN [codes EXCEPT ![commentId] = code] ELSE codes

removeCommentCode(codes, mode, commentId) ==
  IF mode = "ok" /\ codes[commentId] # NoCode
  THEN [codes EXCEPT ![commentId] = NoCode]
  ELSE codes

\* ------------------------------------------------------------------ toasts
NoToast == "none"
ToastSaved == "Prompt saved to Vault!"
ToastRemoved == "Prompt removed from Vault!"
ToastSaveFailed == "Could not save prompt to Vault. Storage might be full or unavailable."
ToastRemoveFailed == "Could not remove prompt from Vault. It might not exist."
ToastCleared == "Vault cleared successfully!"
ToastClearFailed == "Failed to clear vault"
ToastCommentSubmitted == "Comment submitted!"
ToastCommentDeleted == "Comment deleted."
ToastPromptUpdated == "Prompt updated successfully!"
ToastPromptDeleted == "Prompt deleted successfully."
ToastPromptCreated == "Prompt created successfully!"

NoError == "null"
SyncErrors == {"Failed to fetch", "HTTP error! status: 500"}

\* ------------------------------------------------------------ view inputs
\* a text is a sequence of characters
EmptyText == <<>>
sortOptions ==
  <<"updated_at_desc", "updated_at_asc", "created_at_desc", "created_at_asc",
    "title_asc", "title_desc">>
DEFAULT_SORT == sortOptions[1]

\* ------------------------------------------------------------------- state
VARIABLES
  storageMode,      \* behaviour of window.localStorage
  vaultItem,        \* localStorage[VAULT_KEY]
  promptCodes,      \* localStorage[PROMPT_CODES_KEY]
  commentCodes,     \* localStorage[COMMENT_CODES_KEY]
  page,             \* mounted route: "home" or "vault"
  toast,            \* toast raised by the last handler
  selectedPrompt,   \* id of the prompt shown in PromptDetailModal, or NoId
  currentlySaved,   \* PromptDetailModal.currentlySaved
  detailedPromptData, \* PromptDetailModal.detailedPromptData
  detailsLoading,   \* PromptDetailModal.detailsLoading
  commentsError,    \* PromptDetailModal.commentsError
  comments,         \* PromptDetailModal.comments (ids of the displayed comments)
  promptActionError, \* PromptDetailModal.promptActionError
  vaultVersion,     \* HomePage.vaultVersion
  savedPromptIds,   \* PromptList.savedPromptIds (memo on vaultVersion)
  vaultPrompts,     \* VaultPage.vaultPrompts
  isInitialLoading, \* VaultPage.isInitialLoading
  effectPending,    \* the [isInitialLoading] effect is scheduled
  isBatchLoading,   \* VaultPage.isBatchLoading
  batchFetches,     \* fetchPromptsBatch calls issued by the mounted VaultPage
  batchError,       \* VaultPage.batchError
  localPrompts,     \* snapshot captured by syncWithServer
  isClearConfirmOpen, \* VaultPage.isClearConfirmOpen
  searchTerm,       \* VaultPage.searchTerm (a text: sequence of characters)
  sortCriteria,     \* VaultPage.sortCriteria
  orphanSync,       \* snapshot ids of a fetch whose page was unmounted
  freshPrompts,     \* array the last step's fetchPromptsBatch resolved with
  lastCall          \* outcome of the last direct call of a store function

storeVars == <<storageMode, vaultItem, promptCodes, commentCodes>>
modalVars == <<selectedPrompt, currentlySaved, detailedPromptData,
               detailsLoading, commentsError, comments, promptActionError>>
homeVars == <<vaultVersion, savedPromptIds>>
vaultVars == <<vaultPrompts, isInitialLoading, effectPending, isBatchLoading, batchFetches,
               batchError, localPrompts, isClearConfirmOpen, searchTerm, sortCriteria>>
vars == <<storageMode, vaultItem, promptCodes, commentCodes, page, toast, selectedPrompt,
          currentlySaved, detailedPromptData, detailsLoading, commentsError, comments,
          promptActionError, vaultVersion, savedPromptIds, vaultPrompts,
          isInitialLoading, effectPending, isBatchLoading, batchFetches, batchError,
          localPrompts, isClearConfirmOpen, searchTerm, sortCriteria, orphanSync, freshPrompts,
          lastCall>>

NoBatch == [resolved |-> FALSE]

NoCall == [op |-> "none"]

\* what a handler leaves behind: its toast; no batch response is being applied
Emit(t) == toast' = t /\ freshPrompts' = NoBatch /\ lastCall' = NoCall

NoOrphan == [active |-> FALSE, ids |-> <<>>]

\* detailedPromptData before fetchPromptDetail resolved (null)
NoDetail == [prompt_id |-> NoId]

\* no PromptDetailModal is mounted
ModalUnmounted ==
  /\ detailedPromptData' = NoDetail
  /\ detailsLoading' = FALSE
  /\ commentsError' = NoError
  /\ comments' = <<>>
  /\ promptActionError' = NoError

\* PromptDetailModal mounts: the fetch effect clears the detail and starts
\* fetchPromptDetail
ModalMounted ==
  /\ detailedPromptData' = NoDetail
  /\ detailsLoading' = TRUE
  /\ commentsError' = NoError
  /\ comments' = <<>>
  /\ promptActionError' = NoError

\* useState initial values of VaultPage
VaultPageUnmounted ==
  /\ vaultPrompts = <<>>
  /\ isInitialLoading = TRUE
  /\ effectPending = FALSE
  /\ isBatchLoading = FALSE
  /\ batchFetches = 0
  /\ batchError = NoError
  /\ localPrompts = <<>>
  /\ isClearConfirmOpen = FALSE
  /\ searchTerm = EmptyText
  /\ sortCriteria = DEFAULT_SORT

Init ==
  /\ storageMode = "ok"
  /\ vaultItem = AbsentItem
  /\ promptCodes = [i \in Ids |-> NoCode]
  /\ commentCodes = [c \in CommentIds |-> NoCode]
  /\ page = "home"
  /\ toast = NoToast
  /\ selectedPrompt = NoId
  /\ currentlySaved = FALSE
  /\ detailedPromptData = NoDetail
  /\ detailsLoading = FALSE
  /\ commentsError = NoError
  /\ comments = <<>>
  /\ promptActionError = NoError
  /\ vaultVersion = 0
  /\ savedPromptIds = {}
  /\ VaultPageUnmounted
  /\ orphanSync = NoOrphan
  /\ freshPrompts = NoBatch
  /\ lastCall = NoCall

\* the memo `new Set(getVaultPrompts().map(p => p.prompt_id))`
SavedIdsMemo(item, mode) == IdsOf(getVaultPrompts(item, mode))

HomeBump_keepsVersion(item) ==
  /\ vaultVersion' = vaultVersion
  /\ savedPromptIds' = SavedIdsMemo(item, storageMode)

\* HomePage re-render after setVaultVersion: the memo is recomputed and the
\* modal's isSaved prop is re-evaluated
HomeBump(item) ==
  /\ vaultVersion' = vaultVersion + 1
  /\ savedPromptIds' = SavedIdsMemo(item, storageMode)

HomeReady == page = "home"
VaultReady == page = "vault" /\ ~isInitialLoading /\ ~effectPending

\* ------------------------------------------------------------- Home page
PromptList_handleToggleCardVault_alwaysNotifies(prompt) ==
  /\ HomeReady /\ selectedPrompt = NoId /\ vaultVersion < MaxVersion
  /\ LET r == IF prompt.prompt_id \in savedPromptIds
              THEN removePromptFromVault(vaultItem, storageMode, prompt.prompt_id)
              ELSE savePromptToVault(vaultItem, storageMode, prompt)
     IN /\ vaultItem' = r.item
        /\ Emit(IF prompt.prompt_id \in savedPromptIds
                THEN (IF r.ret THEN ToastRemoved ELSE ToastRemoveFailed)
                ELSE (IF r.ret THEN ToastSaved ELSE ToastSaveFailed))
        /\ HomeBump(r.item)
  /\ UNCHANGED <<storageMode, promptCodes, commentCodes, page, modalVars, vaultVars, orphanSync>>

\* PromptList.handleToggleCardVault -> handleRemoveFromVaultForCard /
\* handleSaveToVaultForCard -> HomePage.handleVaultChangedByList
PromptList_handleToggleCardVault(prompt) ==
  /\ HomeReady /\ selectedPrompt = NoId /\ vaultVersion < MaxVersion
  /\ LET r == IF prompt.prompt_id \in savedPromptIds
              THEN removePromptFromVault(vaultItem, storageMode, prompt.prompt_id)
              ELSE savePromptToVault(vaultItem, storageMode, prompt)
     IN /\ vaultItem' = r.item
        /\ IF r.ret
           THEN /\ Emit(IF prompt.prompt_id \in savedPromptIds
                            THEN ToastRemoved ELSE ToastSaved)
                /\ HomeBump(r.item)
           ELSE /\ Emit(IF prompt.prompt_id \in savedPromptIds
                            THEN ToastRemoveFailed ELSE ToastSaveFailed)
                /\ UNCHANGED homeVars
  /\ UNCHANGED <<storageMode, promptCodes, commentCodes, page, modalVars, vaultVars, orphanSync>>

\* HomePage.handlePromptClick
HomePage_handlePromptClick(id) ==
  /\ HomeReady /\ selectedPrompt = NoId
  /\ selectedPrompt' = id
  /\ currentlySaved' = isPromptInVault(vaultItem, storageMode, id)
  /\ ModalMounted
  /\ Emit(NoToast)
  /\ UNCHANGED <<storeVars, page, homeVars, vaultVars, orphanSync>>

\* CreatePromptModal.handleSubmit, createPrompt resolved with a modification
\* code: HomePage.handlePromptCreated
HomePage_handlePromptCreated(id, code) ==
  /\ HomeReady /\ selectedPrompt = NoId
  /\ promptCodes[id] = NoCode
  /\ ~isPromptInVault(vaultItem, storageMode, id)
  /\ promptCodes' = savePromptCode(promptCodes, storageMode, id, code)
  /\ UNCHANGED commentCodes
  /\ Emit(ToastPromptCreated)
  /\ UNCHANGED <<storageMode, vaultItem, page, modalVars, homeVars, vaultVars,
                 orphanSync>>

\* HomePage.handleCloseDetailModal / VaultPage.handleCloseModal(false)
handleCloseModal ==
  /\ selectedPrompt # NoId
  /\ page = "vault" => VaultReady
  /\ selectedPrompt' = NoId
  /\ currentlySaved' = FALSE
  /\ ModalUnmounted
  /\ Emit(NoToast)
  /\ UNCHANGED <<storeVars, page, homeVars, vaultVars, orphanSync>>

\* ------------------------------------------- comment count delta handlers
\* HomePage.handleCommentAdded: effect on localStorage
HomePage_handleCommentAdded(item, mode, promptId) ==
  IF isPromptInVault(item, mode, promptId)
  THEN LET vp == getVaultPrompts(item, mode)
           promptIndex == FindIndex(vp, promptId)
       IN IF promptIndex # 0
          THEN savePromptToVault(item, mode,
                 WithCount(vp[promptIndex], CountOf(vp[promptIndex]) + 1)).item
          ELSE item
  ELSE item

\* HomePage.handleCommentDeleted: effect on localStorage
HomePage_handleCommentDeleted(item, mode, promptId) ==
  IF isPromptInVault(item, mode, promptId)
  THEN LET vp == getVaultPrompts(item, mode)
           promptIndex == FindIndex(vp, promptId)
       IN IF promptIndex # 0
          THEN savePromptToVault(item, mode,
                 WithCount(vp[promptIndex],
                           MathMax0(CountOf(vp[promptIndex]) - 1))).item
          ELSE item
  ELSE item

\* VaultPage.handleCommentAdded: setVaultPrompts(current => current.map(...))
VaultPage_handleCommentAdded_state(list, promptId) ==
  LET F(q) == IF q.prompt_id = promptId
              THEN WithCount(q, CountOf(q) + 1) ELSE q
  IN [i \in 1..Len(list) |-> F(list[i])]

\* VaultPage.handleCommentAdded: savePromptToVault of the entry found in state
VaultPage_handleCommentAdded_store(item, mode, list, promptId) ==
  LET idx == FindIndex(list, promptId)
  IN IF idx # 0
     THEN savePromptToVault(item, mode,
            WithCount(list[idx], CountOf(list[idx]) + 1)).item
     ELSE item

\* VaultPage.handleCommentDeleted: setVaultPrompts(current => current.map(...))
VaultPage_handleCommentDeleted_state(list, promptId) ==
  LET F(q) == IF q.prompt_id = promptId
              THEN WithCount(q, MathMax0(CountOf(q) - 1)) ELSE q
  IN [i \in 1..Len(list) |-> F(list[i])]

\* VaultPage.handleCommentDeleted: savePromptToVault of the entry found in state
VaultPage_handleCommentDeleted_store(item, mode, list, promptId) ==
  LET idx == FindIndex(list, promptId)
  IN IF idx # 0
     THEN savePromptToVault(item, mode,
            WithCount(list[idx], MathMax0(CountOf(list[idx]) - 1))).item
     ELSE item

\* `comments.filter(comment => comment.comment_id !== commentId)`
FilterOutComment(list, commentId) ==
  LET Keep(c) == c # commentId IN SelectSeq(list, Keep)

\* the comment is in the list the modal renders
IsDisplayed(list, commentId) == \E i \in 1..Len(list) : list[i] = commentId

\* the count a +1 would raise stays within the modelled range
CountBelowMax(list, id) ==
  \A i \in 1..Len(list) : list[i].prompt_id = id => CountOf(list[i]) < MaxCount

\* PromptDetailModal.handleCommentSubmit, createComment resolved:
\* onCommentAdded(currentPromptId)
handleCommentSubmit(commentId, code) ==
  /\ selectedPrompt # NoId
  /\ commentCodes[commentId] = NoCode
  /\ ~IsDisplayed(comments, commentId)
  /\ commentCodes' = IF code # NoCode
                     THEN saveCommentCode(commentCodes, storageMode, commentId, code)
                     ELSE commentCodes
  /\ IF page = "home"
     THEN /\ vaultVersion < MaxVersion
          /\ CountBelowMax(getVaultPrompts(vaultItem, storageMode), selectedPrompt)
          /\ vaultItem' = HomePage_handleCommentAdded(vaultItem, storageMode,
                                                      selectedPrompt)
          /\ IF isPromptInVault(vaultItem, storageMode, selectedPrompt)
             THEN /\ HomeBump(vaultItem')
                  /\ currentlySaved' =
                       isPromptInVault(vaultItem', storageMode, selectedPrompt)
             ELSE UNCHANGED <<homeVars, currentlySaved>>
          /\ UNCHANGED vaultVars
     ELSE /\ VaultReady
          /\ CountBelowMax(vaultPrompts, selectedPrompt)
          /\ vaultPrompts' =
               VaultPage_handleCommentAdded_state(vaultPrompts, selectedPrompt)
          /\ vaultItem' = VaultPage_handleCommentAdded_store(
                             vaultItem, storageMode, vaultPrompts, selectedPrompt)
          /\ UNCHANGED <<homeVars, currentlySaved, isInitialLoading,
                         effectPending, isBatchLoading, batchFetches, batchError,
                         localPrompts, isClearConfirmOpen, searchTerm, sortCriteria>>
  /\ comments' = <<commentId>> \o comments
  /\ Emit(ToastCommentSubmitted)
  /\ UNCHANGED <<storageMode, promptCodes, page, selectedPrompt,
                 detailedPromptData, detailsLoading, commentsError,
                 promptActionError, orphanSync>>

\* PromptDetailModal.handleDeleteComment, deleteComment resolved:
\* onCommentDeleted(currentPromptId)
handleDeleteComment(commentId) ==
  /\ selectedPrompt # NoId
  /\ getCommentCode(commentCodes, storageMode, commentId) # NoCode
  /\ commentCodes' = removeCommentCode(commentCodes, storageMode, commentId)
  /\ IF page = "home"
     THEN /\ vaultVersion < MaxVersion
          /\ vaultItem' = HomePage_handleCommentDeleted(vaultItem, storageMode,
                                                        selectedPrompt)
          /\ IF isPromptInVault(vaultItem, storageMode, selectedPrompt)
             THEN /\ HomeBump(vaultItem')
                  /\ currentlySaved' =
                       isPromptInVault(vaultItem', storageMode, selectedPrompt)
             ELSE UNCHANGED <<homeVars, currentlySaved>>
          /\ UNCHANGED vaultVars
     ELSE /\ VaultReady
          /\ vaultPrompts' =
               VaultPage_handleCommentDeleted_state(vaultPrompts, selectedPrompt)
          /\ vaultItem' = VaultPage_handleCommentDeleted_store(
                             vaultItem, storageMode, vaultPrompts, selectedPrompt)
          /\ UNCHANGED <<homeVars, currentlySaved, isInitialLoading,
                         effectPending, isBatchLoading, batchFetches, batchError,
                         localPrompts, isClearConfirmOpen, searchTerm, sortCriteria>>
  /\ comments' = FilterOutComment(comments, commentId)
  /\ Emit(ToastCommentDeleted)
  /\ UNCHANGED <<storageMode, promptCodes, page, selectedPrompt,
                 detailedPromptData, detailsLoading, commentsError,
                 promptActionError, orphanSync>>

\* --------------------------------------------- detail modal: vault toggle
ToastVaultSaved == "Prompt saved/updated in Vault!"
ToastVaultSaveFailed == "Failed to save prompt changes locally. Storage might be full."
ToastVaultRemoveFailed == "Could not remove prompt from Vault locally. It might not exist."

\* VaultPage.handleSaveToVault: prev.map(p => p.prompt_id === id ? promptToSave : p)
ReplaceById(list, promptToSave) ==
  LET F(q) == IF q.prompt_id = promptToSave.prompt_id THEN promptToSave ELSE q
  IN [i \in 1..Len(list) |-> F(list[i])]

\* PromptDetailModal.handleToggleVault -> onRemoveFromVault / onSaveToVault
\* (HomePage.handleRemoveFromVaultForModal / handleSaveToVaultForModal,
\*  VaultPage.handleRemoveFromVault / handleSaveToVault)
handleToggleVault(currentPromptData) ==
  /\ selectedPrompt # NoId
  /\ currentPromptData.prompt_id = selectedPrompt
  /\ LET r == IF currentlySaved
              THEN removePromptFromVault(vaultItem, storageMode, selectedPrompt)
              ELSE savePromptToVault(vaultItem, storageMode, currentPromptData)
     IN /\ vaultItem' = r.item
        /\ IF page = "home"
           THEN /\ vaultVersion < MaxVersion
                /\ Emit(IF currentlySaved
                        THEN (IF r.ret THEN ToastRemoved ELSE ToastRemoveFailed)
                        ELSE (IF r.ret THEN ToastSaved ELSE ToastSaveFailed))
                /\ IF r.ret
                   THEN /\ HomeBump(r.item)
                        /\ currentlySaved' = ~currentlySaved
                   ELSE UNCHANGED <<homeVars, currentlySaved>>
                /\ UNCHANGED <<selectedPrompt, vaultVars>>
           ELSE /\ VaultReady
                /\ Emit(IF currentlySaved
                        THEN (IF r.ret THEN ToastRemoved
                              ELSE ToastVaultRemoveFailed)
                        ELSE (IF r.ret THEN ToastVaultSaved
                              ELSE ToastVaultSaveFailed))
                /\ IF r.ret
                   THEN IF currentlySaved
                        THEN /\ vaultPrompts' = FilterOut(vaultPrompts, selectedPrompt)
                             /\ selectedPrompt' = NoId
                             /\ currentlySaved' = FALSE
                        ELSE /\ vaultPrompts' = ReplaceById(vaultPrompts,
                                                            currentPromptData)
                             /\ currentlySaved' = TRUE
                             /\ UNCHANGED selectedPrompt
                   ELSE UNCHANGED <<vaultPrompts, selectedPrompt, currentlySaved>>
                /\ UNCHANGED <<homeVars, isInitialLoading, effectPending,
                               isBatchLoading, batchFetches, batchError, localPrompts,
                               isClearConfirmOpen, searchTerm, sortCriteria>>
  /\ IF selectedPrompt' = NoId
     THEN ModalUnmounted
     ELSE UNCHANGED <<detailedPromptData, detailsLoading, commentsError, comments,
                      promptActionError>>
  /\ UNCHANGED <<storageMode, promptCodes, commentCodes, page, orphanSync>>

\* ------------------------------------------ detail modal: edit and delete
\* VaultPage.handlePromptUpdated: merge into the entry with the same id
VaultPage_handlePromptUpdated(list, updatedPrompt) ==
  LET F(q) == IF q.prompt_id = updatedPrompt.prompt_id
              THEN MergeSpread(q, updatedPrompt) ELSE q
  IN [i \in 1..Len(list) |-> F(list[i])]

\* PromptDetailModal.handleSavePromptEdit, updatePrompt resolved with
\* updatedPromptData; then onPromptUpdated (HomePage / VaultPage)
handleSavePromptEdit(updatedPromptData) ==
  /\ selectedPrompt # NoId
  /\ updatedPromptData.prompt_id = selectedPrompt
  /\ getPromptCode(promptCodes, storageMode, selectedPrompt) # NoCode
  /\ LET afterModal == IF currentlySaved
                       THEN savePromptToVault(vaultItem, storageMode,
                                              updatedPromptData).item
                       ELSE vaultItem
     IN IF page = "home"
        THEN /\ vaultVersion < MaxVersion
             /\ IF isPromptInVault(afterModal, storageMode, selectedPrompt)
                THEN /\ vaultItem' = savePromptToVault(afterModal, storageMode,
                                                       updatedPromptData).item
                     /\ HomeBump(vaultItem')
                     /\ currentlySaved' =
                          isPromptInVault(vaultItem', storageMode, selectedPrompt)
                ELSE /\ vaultItem' = afterModal
                     /\ UNCHANGED <<homeVars, currentlySaved>>
             /\ UNCHANGED vaultVars
        ELSE /\ VaultReady
             /\ vaultItem' = afterModal
             /\ vaultPrompts' = VaultPage_handlePromptUpdated(vaultPrompts,
                                                              updatedPromptData)
             /\ UNCHANGED <<homeVars, currentlySaved, isInitialLoading,
                            effectPending, isBatchLoading, batchFetches, batchError,
                            localPrompts, isClearConfirmOpen, searchTerm, sortCriteria>>
  /\ Emit(ToastPromptUpdated)
  /\ detailedPromptData' = updatedPromptData
  /\ promptActionError' = NoError
  /\ UNCHANGED <<storageMode, promptCodes, commentCodes, page, selectedPrompt,
                 detailsLoading, commentsError, comments, orphanSync>>

\* PromptDetailModal.handleDeletePrompt, confirmed and deletePrompt resolved:
\* removePromptCode, removePromptFromVault, onPromptDeleted, onClose(true)
\* (HomePage.handlePromptDeleted / VaultPage.handlePromptDeletedCallback,
\*  VaultPage.handleCloseModal(true) -> loadFromLocalStorage)
handleDeletePrompt ==
  /\ selectedPrompt # NoId
  /\ getPromptCode(promptCodes, storageMode, selectedPrompt) # NoCode
  /\ promptCodes' = removePromptCode(promptCodes, storageMode, selectedPrompt)
  /\ UNCHANGED commentCodes
  /\ LET afterModal == removePromptFromVault(vaultItem, storageMode,
                                             selectedPrompt).item
         r == removePromptFromVault(afterModal, storageMode, selectedPrompt)
     IN /\ vaultItem' = r.item
        /\ IF page = "home"
           THEN /\ vaultVersion < MaxVersion
                /\ IF r.ret THEN HomeBump(r.item) ELSE UNCHANGED homeVars
                /\ UNCHANGED vaultVars
           ELSE /\ VaultReady
                /\ vaultPrompts' = getVaultPrompts(r.item, storageMode)
                /\ UNCHANGED <<homeVars, isInitialLoading, effectPending,
                               isBatchLoading, batchFetches, batchError, localPrompts,
                               isClearConfirmOpen, searchTerm, sortCriteria>>
  /\ selectedPrompt' = NoId
  /\ currentlySaved' = FALSE
  /\ ModalUnmounted
  /\ Emit(ToastPromptDeleted)
  /\ UNCHANGED <<storageMode, page, orphanSync>>

\* ------------------------------------------------------------- navigation
\* Route change / to /vault: HomePage unmounts, VaultPage mounts with its
\* useState initial values
NavigateToVault ==
  /\ page = "home" /\ selectedPrompt = NoId
  /\ page' = "vault"
  /\ vaultVersion' = 0
  /\ savedPromptIds' = {}
  /\ Emit(NoToast)
  /\ UNCHANGED <<storeVars, modalVars, vaultVars, orphanSync>>

\* Route change /vault to /: VaultPage unmounts (a fetch in flight keeps its
\* closure), HomePage mounts and PromptList computes savedPromptIds
NavigateToHome ==
  /\ page = "vault" /\ selectedPrompt = NoId /\ ~effectPending
  /\ ~isInitialLoading
  /\ isBatchLoading => ~orphanSync.active
  /\ page' = "home"
  /\ orphanSync' = IF isBatchLoading
                   THEN [active |-> TRUE, ids |-> IdSeqOf(localPrompts)]
                   ELSE orphanSync
  /\ vaultPrompts' = <<>>
  /\ isInitialLoading' = TRUE
  /\ effectPending' = FALSE
  /\ isBatchLoading' = FALSE
  /\ batchFetches' = 0
  /\ batchError' = NoError
  /\ localPrompts' = <<>>
  /\ isClearConfirmOpen' = FALSE
  /\ searchTerm' = EmptyText
  /\ sortCriteria' = DEFAULT_SORT
  /\ vaultVersion' = 0
  /\ savedPromptIds' = SavedIdsMemo(vaultItem, storageMode)
  /\ Emit(NoToast)
  /\ UNCHANGED <<storeVars, modalVars>>

\* -------------------------------------------------------------- Vault page
\* VaultPage.loadFromLocalStorage, run by the mount effect
VaultPage_loadFromLocalStorage ==
  /\ page = "vault" /\ isInitialLoading
  /\ vaultPrompts' = getVaultPrompts(vaultItem, storageMode)
  /\ isInitialLoading' = FALSE
  /\ effectPending' = TRUE
  /\ Emit(NoToast)
  /\ UNCHANGED <<storeVars, page, modalVars, homeVars, isBatchLoading, batchFetches,
                 batchError, localPrompts, isClearConfirmOpen, searchTerm, sortCriteria, orphanSync>>

VaultPage_syncEffect_alwaysFetches ==
  /\ page = "vault" /\ effectPending
  /\ effectPending' = FALSE
  /\ isBatchLoading' = TRUE
  /\ batchFetches' = batchFetches + 1
  /\ batchError' = NoError
  /\ localPrompts' = getVaultPrompts(vaultItem, storageMode)
  /\ Emit(NoToast)
  /\ UNCHANGED <<storeVars, page, modalVars, homeVars, vaultPrompts,
                 isInitialLoading, isClearConfirmOpen, searchTerm, sortCriteria,
                 orphanSync>>

\* The [isInitialLoading] effect: start syncWithServer when the persisted
\* vault is not empty
VaultPage_syncEffect ==
  /\ page = "vault" /\ effectPending
  /\ effectPending' = FALSE
  /\ LET lp == getVaultPrompts(vaultItem, storageMode)
     IN IF ~isInitialLoading /\ Len(lp) > 0
        THEN /\ isBatchLoading' = TRUE
             /\ batchFetches' = batchFetches + 1
             /\ batchError' = NoError
             /\ localPrompts' = lp
        ELSE UNCHANGED <<isBatchLoading, batchFetches, batchError, localPrompts>>
  /\ Emit(NoToast)
  /\ UNCHANGED <<storeVars, page, modalVars, homeVars, vaultPrompts,
                 isInitialLoading, isClearConfirmOpen, searchTerm, sortCriteria, orphanSync>>

\* Batch responses: a map from the returned ids to the server's prompts
\* (`new Map(freshPrompts.map(p => [p.prompt_id, p]))`)
BatchResponses ==
  UNION {{f \in [S -> Prompts] : \A i \in S : f[i].prompt_id = i} :
           S \in SUBSET Ids}

\* the list passed to setVaultPrompts in the success branch
SyncedList(lp, freshPromptsMap) ==
  LET Fresh(q) == IF q.prompt_id \in DOMAIN freshPromptsMap
                  THEN freshPromptsMap[q.prompt_id] ELSE q
      Confirmed(q) == q.prompt_id \in DOMAIN freshPromptsMap
  IN SelectSeq([i \in 1..Len(lp) |-> Fresh(lp[i])], Confirmed)

\* localPrompts.forEach(p => if (!freshIds.has(p.prompt_id)) removePromptFromVault(...))
RECURSIVE RemoveMissing(_, _, _, _)
RemoveMissing(item, mode, idSeq, freshIds) ==
  IF idSeq = <<>> THEN item
  ELSE LET next == IF Head(idSeq) \in freshIds
                   THEN item
                   ELSE removePromptFromVault(item, mode, Head(idSeq)).item
       IN RemoveMissing(next, mode, Tail(idSeq), freshIds)

\* syncWithServer: fetchPromptsBatch resolved
VaultPage_syncSuccess(freshPromptsMap) ==
  /\ page = "vault" /\ isBatchLoading
  /\ DOMAIN freshPromptsMap \subseteq IdsOf(localPrompts)
  /\ vaultPrompts' = SyncedList(localPrompts, freshPromptsMap)
  /\ vaultItem' = RemoveMissing(vaultItem, storageMode, IdSeqOf(localPrompts),
                                DOMAIN freshPromptsMap)
  /\ isBatchLoading' = FALSE
  /\ UNCHANGED batchFetches
  /\ localPrompts' = <<>>
  /\ toast' = NoToast
  /\ lastCall' = NoCall
  /\ freshPrompts' = [resolved |-> TRUE, requested |-> IdSeqOf(localPrompts),
                      map |-> freshPromptsMap]
  /\ UNCHANGED <<storageMode, promptCodes, commentCodes, page, modalVars, homeVars,
                 isInitialLoading, effectPending, batchError,
                 isClearConfirmOpen, searchTerm, sortCriteria, orphanSync>>

VaultPage_syncFailure_dropsAll(message) ==
  /\ page = "vault" /\ isBatchLoading
  /\ batchError' = message
  /\ vaultPrompts' = <<>>
  /\ vaultItem' = RemoveMissing(vaultItem, storageMode, IdSeqOf(localPrompts), {})
  /\ isBatchLoading' = FALSE
  /\ UNCHANGED batchFetches
  /\ localPrompts' = <<>>
  /\ Emit(NoToast)
  /\ UNCHANGED <<storageMode, promptCodes, commentCodes, page, modalVars, homeVars,
                 isInitialLoading, effectPending, isClearConfirmOpen, searchTerm, sortCriteria,
                 orphanSync>>

VaultPage_syncFailure_noFinally(message) ==
  /\ page = "vault" /\ isBatchLoading
  /\ batchError' = message
  /\ localPrompts' = <<>>
  /\ Emit(NoToast)
  /\ UNCHANGED <<storeVars, page, modalVars, homeVars, vaultPrompts,
                 isInitialLoading, effectPending, isBatchLoading, batchFetches,
                 isClearConfirmOpen, searchTerm, sortCriteria, orphanSync>>

VaultPage_syncFailure_retries(message) ==
  /\ page = "vault" /\ isBatchLoading
  /\ batchError' = message
  /\ batchFetches' = batchFetches + 1
  /\ Emit(NoToast)
  /\ UNCHANGED <<storeVars, page, modalVars, homeVars, vaultPrompts,
                 isInitialLoading, effectPending, isBatchLoading, localPrompts,
                 isClearConfirmOpen, searchTerm, sortCriteria, orphanSync>>

\* syncWithServer: fetchPromptsBatch rejected (handleResponse threw, or the
\* network failed): catch and finally
VaultPage_syncFailure(message) ==
  /\ page = "vault" /\ isBatchLoading
  /\ batchError' = message
  /\ isBatchLoading' = FALSE
  /\ UNCHANGED batchFetches
  /\ localPrompts' = <<>>
  /\ Emit(NoToast)
  /\ UNCHANGED <<storeVars, page, modalVars, homeVars, vaultPrompts,
                 isInitialLoading, effectPending, isClearConfirmOpen, searchTerm, sortCriteria,
                 orphanSync>>

\* syncWithServer of an unmounted VaultPage resolves: setVaultPrompts has no
\* effect, the clean-up loop still writes localStorage
Unmounted_syncSuccess(freshIds) ==
  /\ orphanSync.active
  /\ freshIds \subseteq {orphanSync.ids[i] : i \in 1..Len(orphanSync.ids)}
  /\ vaultItem' = RemoveMissing(vaultItem, storageMode,
                                orphanSync.ids, freshIds)
  /\ orphanSync' = NoOrphan
  /\ Emit(NoToast)
  /\ UNCHANGED <<storageMode, promptCodes, commentCodes, page, modalVars, homeVars, vaultVars>>

\* syncWithServer of an unmounted VaultPage rejects
Unmounted_syncFailure ==
  /\ orphanSync.active
  /\ orphanSync' = NoOrphan
  /\ Emit(NoToast)
  /\ UNCHANGED <<storeVars, page, modalVars, homeVars, vaultVars>>

\* VaultPage.handlePromptClick
VaultPage_handlePromptClick(i) ==
  /\ VaultReady /\ selectedPrompt = NoId /\ ~isClearConfirmOpen
  /\ i \in 1..Len(vaultPrompts)
  /\ selectedPrompt' = vaultPrompts[i].prompt_id
  /\ currentlySaved' = TRUE
  /\ ModalMounted
  /\ Emit(NoToast)
  /\ UNCHANGED <<storeVars, page, homeVars, vaultVars, orphanSync>>

\* VaultPage.handleToggleCardVault(prompt, currentlySaved = true)
VaultPage_handleToggleCardVault(i) ==
  /\ VaultReady /\ selectedPrompt = NoId /\ ~isClearConfirmOpen
  /\ i \in 1..Len(vaultPrompts)
  /\ LET r == removePromptFromVault(vaultItem, storageMode,
                                    vaultPrompts[i].prompt_id)
     IN /\ vaultItem' = r.item
        /\ IF r.ret
           THEN /\ vaultPrompts' = FilterOut(vaultPrompts,
                                             vaultPrompts[i].prompt_id)
                /\ Emit(ToastRemoved)
           ELSE /\ Emit(ToastVaultRemoveFailed)
                /\ UNCHANGED vaultPrompts
  /\ UNCHANGED <<storageMode, promptCodes, commentCodes, page, modalVars, homeVars,
                 isInitialLoading, effectPending, isBatchLoading, batchFetches, batchError,
                 localPrompts, isClearConfirmOpen, searchTerm, sortCriteria, orphanSync>>

\* VaultPage.handleClearVaultClick (button disabled when empty or syncing)
VaultPage_handleClearVaultClick ==
  /\ VaultReady /\ selectedPrompt = NoId /\ ~isClearConfirmOpen
  /\ Len(vaultPrompts) # 0 /\ ~isBatchLoading
  /\ isClearConfirmOpen' = TRUE
  /\ UNCHANGED <<searchTerm, sortCriteria>>
  /\ Emit(NoToast)
  /\ UNCHANGED <<storeVars, page, modalVars, homeVars, vaultPrompts,
                 isInitialLoading, effectPending, isBatchLoading, batchFetches, batchError,
                 localPrompts, orphanSync>>

\* VaultPage.handleConfirmClearVault
VaultPage_handleConfirmClearVault ==
  /\ VaultReady /\ isClearConfirmOpen
  /\ LET r == clearVault(vaultItem, storageMode)
     IN /\ vaultItem' = r.item
        /\ IF r.threw
           THEN /\ Emit(ToastClearFailed)
                /\ UNCHANGED vaultPrompts
           ELSE /\ Emit(ToastCleared)
                /\ vaultPrompts' = <<>>
  /\ isClearConfirmOpen' = FALSE
  /\ UNCHANGED <<searchTerm, sortCriteria>>
  /\ UNCHANGED <<storageMode, promptCodes, commentCodes, page, modalVars, homeVars,
                 isInitialLoading, effectPending, isBatchLoading, batchFetches, batchError,
                 localPrompts, orphanSync>>

\* ConfirmationModal onClose
VaultPage_cancelClearVault ==
  /\ VaultReady /\ isClearConfirmOpen
  /\ isClearConfirmOpen' = FALSE
  /\ UNCHANGED <<searchTerm, sortCriteria>>
  /\ Emit(NoToast)
  /\ UNCHANGED <<storeVars, page, modalVars, homeVars, vaultPrompts,
                 isInitialLoading, effectPending, isBatchLoading, batchFetches, batchError,
                 localPrompts, orphanSync>>

\* ---------------------------------------------------------- specification
Next ==
  \/ \E q \in Prompts : PromptList_handleToggleCardVault(q)
  \/ \E i \in Ids : HomePage_handlePromptClick(i)
  \/ \E i \in Ids, c \in Codes : HomePage_handlePromptCreated(i, c)
  \/ handleCloseModal
  \/ \E c \in CommentIds, k \in Codes : handleCommentSubmit(c, k)
  \/ \E c \in CommentIds : handleDeleteComment(c)
  \/ \E q \in Prompts : handleToggleVault(q)
  \/ \E q \in Prompts : handleSavePromptEdit(q)
  \/ handleDeletePrompt
  \/ NavigateToVault
  \/ NavigateToHome
  \/ VaultPage_loadFromLocalStorage
  \/ VaultPage_syncEffect
  \/ \E f \in BatchResponses : VaultPage_syncSuccess(f)
  \/ \E m \in SyncErrors : VaultPage_syncFailure(m)
  \/ \E S \in SUBSET Ids : Unmounted_syncSuccess(S)
  \/ Unmounted_syncFailure
  \/ \E i \in 1..Cardinality(Ids) : VaultPage_handlePromptClick(i)
  \/ \E i \in 1..Cardinality(Ids) : VaultPage_handleToggleCardVault(i)
  \/ VaultPage_handleClearVaultClick
  \/ VaultPage_handleConfirmClearVault
  \/ VaultPage_cancelClearVault

Spec == Init /\ [][Next]_vars

\* ------------------------------------------- detail modal: remote answers
\* HTTP answers of the prompt endpoints that make the api functions throw
ApiStatuses == {"403", "404", "network"}

\* the Error message thrown by updatePrompt / deletePrompt / createComment /
\* fetchPromptDetail
ApiErrorMessage(status, promptId) ==
  CASE status = "403" ->
         "Permission Denied: Invalid modification code or not allowed."
    [] status = "404" -> "Prompt with ID " \o promptId \o " not found."
    [] OTHER -> "Failed to fetch"

ToastEditFailed(errorMsg) == "Error updating prompt: " \o errorMsg
ToastDeleteFailed(errorMsg) == "Error deleting prompt: " \o errorMsg
ToastCommentFailed(errorMsg) == "Error submitting comment: " \o errorMsg

\* fetch effect of PromptDetailModal: fetchPromptDetail resolved
fetchPromptDetail_resolved(data, results) ==
  /\ selectedPrompt # NoId /\ detailsLoading
  /\ data.prompt_id = selectedPrompt
  /\ detailedPromptData' = data
  /\ comments' = results
  /\ detailsLoading' = FALSE
  /\ Emit(NoToast)
  /\ UNCHANGED <<storeVars, page, selectedPrompt, currentlySaved, commentsError,
                 promptActionError, homeVars, vaultVars, orphanSync>>

\* fetch effect of PromptDetailModal: fetchPromptDetail rejected (catch, finally)
fetchPromptDetail_rejected(status) ==
  /\ selectedPrompt # NoId /\ detailsLoading
  /\ status # "403"
  /\ commentsError' = ApiErrorMessage(status, selectedPrompt)
  /\ UNCHANGED comments
  /\ detailsLoading' = FALSE
  /\ Emit(NoToast)
  /\ UNCHANGED <<storeVars, page, selectedPrompt, currentlySaved,
                 detailedPromptData, promptActionError, homeVars, vaultVars,
                 orphanSync>>

handleSavePromptEdit_rejected_forgetsCode(status) ==
  /\ selectedPrompt # NoId
  /\ getPromptCode(promptCodes, storageMode, selectedPrompt) # NoCode
  /\ promptActionError' = ApiErrorMessage(status, selectedPrompt)
  /\ toast' = ToastEditFailed(ApiErrorMessage(status, selectedPrompt))
  /\ freshPrompts' = NoBatch
  /\ lastCall' = NoCall
  /\ promptCodes' = removePromptCode(promptCodes, storageMode, selectedPrompt)
  /\ UNCHANGED commentCodes
  /\ UNCHANGED <<storageMode, vaultItem, page, selectedPrompt, currentlySaved,
                 detailedPromptData, detailsLoading, commentsError, comments, homeVars,
                 vaultVars, orphanSync>>

\* PromptDetailModal.handleSavePromptEdit, updatePrompt rejected: catch
handleSavePromptEdit_rejected(status) ==
  /\ selectedPrompt # NoId
  /\ getPromptCode(promptCodes, storageMode, selectedPrompt) # NoCode
  /\ promptActionError' = ApiErrorMessage(status, selectedPrompt)
  /\ toast' = ToastEditFailed(ApiErrorMessage(status, selectedPrompt))
  /\ freshPrompts' = NoBatch
  /\ lastCall' = NoCall
  /\ UNCHANGED <<storeVars, page, selectedPrompt, currentlySaved,
                 detailedPromptData, detailsLoading, commentsError, comments, homeVars,
                 vaultVars, orphanSync>>

handleDeletePrompt_rejected_dropsFromVault(status) ==
  /\ selectedPrompt # NoId
  /\ getPromptCode(promptCodes, storageMode, selectedPrompt) # NoCode
  /\ promptActionError' = ApiErrorMessage(status, selectedPrompt)
  /\ toast' = ToastDeleteFailed(ApiErrorMessage(status, selectedPrompt))
  /\ freshPrompts' = NoBatch
  /\ lastCall' = NoCall
  /\ vaultItem' = removePromptFromVault(vaultItem, storageMode, selectedPrompt).item
  /\ UNCHANGED <<storageMode, promptCodes, commentCodes, page, selectedPrompt,
                 currentlySaved, detailedPromptData, detailsLoading, commentsError, comments,
                 homeVars, vaultVars, orphanSync>>

\* PromptDetailModal.handleDeletePrompt, deletePrompt rejected: catch
handleDeletePrompt_rejected(status) ==
  /\ selectedPrompt # NoId
  /\ getPromptCode(promptCodes, storageMode, selectedPrompt) # NoCode
  /\ promptActionError' = ApiErrorMessage(status, selectedPrompt)
  /\ toast' = ToastDeleteFailed(ApiErrorMessage(status, selectedPrompt))
  /\ freshPrompts' = NoBatch
  /\ lastCall' = NoCall
  /\ UNCHANGED <<storeVars, page, selectedPrompt, currentlySaved,
                 detailedPromptData, detailsLoading, commentsError, comments, homeVars,
                 vaultVars, orphanSync>>

\* PromptDetailModal.handleCommentSubmit, createComment rejected: catch
handleCommentSubmit_rejected(status) ==
  /\ selectedPrompt # NoId
  /\ status # "403"
  /\ toast' = ToastCommentFailed(ApiErrorMessage(status, selectedPrompt))
  /\ freshPrompts' = NoBatch
  /\ lastCall' = NoCall
  /\ UNCHANGED <<storeVars, page, modalVars, homeVars, vaultVars, orphanSync>>

\* ------------------------------- detail modal: missing modification code
ToastCannotSave == "Cannot save: Modification code not found."
ToastCannotDelete == "Cannot delete: Modification code not found."
ToastCommentUpdated == "Comment updated."
ToastCommentEditFailed(errorMsg) == "Error saving comment: " \o errorMsg
ToastCommentDeleteFailed(errorMsg) == "Failed to delete comment: " \o errorMsg

\* the Error message thrown by updateComment ("update") / deleteComment ("delete")
CommentApiErrorMessage(verb, status, commentId) ==
  CASE status = "403" ->
         "Permission Denied: Invalid modification code or not allowed to "
           \o verb \o "."
    [] status = "404" -> "Comment with ID " \o commentId \o " not found."
    [] OTHER -> "Failed to fetch"

\* PromptDetailModal.handleSavePromptEdit: getPromptCode returned nothing
handleSavePromptEdit_noCode ==
  /\ selectedPrompt # NoId
  /\ getPromptCode(promptCodes, storageMode, selectedPrompt) = NoCode
  /\ promptActionError' =
       "Cannot save: Modification code not found. Please recreate the prompt if needed."
  /\ Emit(ToastCannotSave)
  /\ UNCHANGED <<storeVars, page, selectedPrompt, currentlySaved,
                 detailedPromptData, detailsLoading, commentsError, comments,
                 homeVars, vaultVars, orphanSync>>

\* PromptDetailModal.handleDeletePrompt: getPromptCode returned nothing
handleDeletePrompt_noCode ==
  /\ selectedPrompt # NoId
  /\ getPromptCode(promptCodes, storageMode, selectedPrompt) = NoCode
  /\ promptActionError' = ToastCannotDelete
  /\ Emit(ToastCannotDelete)
  /\ UNCHANGED <<storeVars, page, selectedPrompt, currentlySaved,
                 detailedPromptData, detailsLoading, commentsError, comments,
                 homeVars, vaultVars, orphanSync>>

handleDeleteComment_noCode_dropsComment(commentId) ==
  /\ selectedPrompt # NoId /\ IsDisplayed(comments, commentId)
  /\ getCommentCode(commentCodes, storageMode, commentId) = NoCode
  /\ comments' = FilterOutComment(comments, commentId)
  /\ Emit(ToastCannotDelete)
  /\ UNCHANGED <<storeVars, page, selectedPrompt, currentlySaved,
                 detailedPromptData, detailsLoading, commentsError,
                 promptActionError, homeVars, vaultVars, orphanSync>>

\* PromptDetailModal.handleDeleteComment: getCommentCode returned nothing
handleDeleteComment_noCode(commentId) ==
  /\ selectedPrompt # NoId /\ IsDisplayed(comments, commentId)
  /\ getCommentCode(commentCodes, storageMode, commentId) = NoCode
  /\ Emit(ToastCannotDelete)
  /\ UNCHANGED <<storeVars, page, modalVars, homeVars, vaultVars, orphanSync>>

\* PromptDetailModal.handleDeleteComment, deleteComment rejected: catch
handleDeleteComment_rejected(commentId, status) ==
  /\ selectedPrompt # NoId /\ IsDisplayed(comments, commentId)
  /\ getCommentCode(commentCodes, storageMode, commentId) # NoCode
  /\ Emit(ToastCommentDeleteFailed(
            CommentApiErrorMessage("delete", status, commentId)))
  /\ UNCHANGED <<storeVars, page, modalVars, homeVars, vaultVars, orphanSync>>

\* PromptDetailModal.handleSaveEdit: getCommentCode returned nothing (the
\* handler throws to CommentItem after the toast)
handleSaveEdit_noCode(commentId) ==
  /\ selectedPrompt # NoId /\ IsDisplayed(comments, commentId)
  /\ getCommentCode(commentCodes, storageMode, commentId) = NoCode
  /\ Emit(ToastCannotSave)
  /\ UNCHANGED <<storeVars, page, modalVars, homeVars, vaultVars, orphanSync>>

\* PromptDetailModal.handleSaveEdit, updateComment resolved: the comment is
\* replaced in place, the ids of the displayed list stay
handleSaveEdit(commentId) ==
  /\ selectedPrompt # NoId /\ IsDisplayed(comments, commentId)
  /\ getCommentCode(commentCodes, storageMode, commentId) # NoCode
  /\ Emit(ToastCommentUpdated)
  /\ UNCHANGED <<storeVars, page, modalVars, homeVars, vaultVars, orphanSync>>

\* PromptDetailModal.handleSaveEdit, updateComment rejected: catch, rethrow
handleSaveEdit_rejected(commentId, status) ==
  /\ selectedPrompt # NoId /\ IsDisplayed(comments, commentId)
  /\ getCommentCode(commentCodes, storageMode, commentId) # NoCode
  /\ Emit(ToastCommentEditFailed(
            CommentApiErrorMessage("update", status, commentId)))
  /\ UNCHANGED <<storeVars, page, modalVars, homeVars, vaultVars, orphanSync>>

\* -------------------------------------------------- a settled page session
\* stored vault lists: unique ids
VaultLists ==
  {<<>>} \cup {<<p>> : p \in Prompts}
    \cup {<<p, q>> : p \in PromptsOf("A"), q \in PromptsOf("B")}
    \cup {<<q, p>> : p \in PromptsOf("A"), q \in PromptsOf("B")}

\* The application is loaded in a browser whose localStorage already holds a
\* vault and modification codes: the Home page is mounted, or the Vault page
\* has loaded the list and no sync is in flight.
InitSettled ==
  /\ storageMode = "ok"
  /\ vaultItem \in {AbsentItem} \cup {JSONstringify(l) : l \in VaultLists}
  /\ promptCodes \in [Ids -> Codes \cup {NoCode}]
  /\ commentCodes \in [CommentIds -> Codes \cup {NoCode}]
  /\ page \in {"home", "vault"}
  /\ toast = NoToast
  /\ selectedPrompt = NoId
  /\ currentlySaved = FALSE
  /\ detailedPromptData = NoDetail
  /\ detailsLoading = FALSE
  /\ commentsError = NoError
  /\ comments = <<>>
  /\ promptActionError = NoError
  /\ vaultVersion = 0
  /\ savedPromptIds = IF page = "home"
                      THEN SavedIdsMemo(vaultItem, storageMode) ELSE {}
  /\ vaultPrompts = IF page = "vault"
                    THEN getVaultPrompts(vaultItem, storageMode) ELSE <<>>
  /\ isInitialLoading = (page = "home")
  /\ effectPending = FALSE
  /\ isBatchLoading = FALSE
  /\ batchFetches = IF vaultPrompts # <<>> THEN 1 ELSE 0
  /\ batchError = NoError
  /\ localPrompts = <<>>
  /\ isClearConfirmOpen = FALSE
  /\ searchTerm = EmptyText
  /\ sortCriteria = DEFAULT_SORT
  /\ orphanSync = NoOrphan
  /\ freshPrompts = NoBatch
  /\ lastCall = NoCall

\* the detail modal and the remote answers to its calls
NextDetail ==
  \/ \E i \in Ids : HomePage_handlePromptClick(i)
  \/ \E i \in 1..Cardinality(Ids) : VaultPage_handlePromptClick(i)
  \/ handleCloseModal
  \/ \E q \in Prompts, cs \in {<<>>} \cup {<<c>> : c \in CommentIds} :
       fetchPromptDetail_resolved(q, cs)
  \/ \E st \in ApiStatuses : fetchPromptDetail_rejected(st)
  \/ \E q \in Prompts : handleSavePromptEdit(q)
  \/ \E st \in ApiStatuses : handleSavePromptEdit_rejected(st)
  \/ handleDeletePrompt
  \/ \E st \in ApiStatuses : handleDeletePrompt_rejected(st)
  \/ \E c \in CommentIds, k \in Codes \cup {NoCode} : handleCommentSubmit(c, k)
  \/ \E st \in ApiStatuses : handleCommentSubmit_rejected(st)
  \/ handleSavePromptEdit_noCode
  \/ handleDeletePrompt_noCode
  \/ \E c \in CommentIds : handleDeleteComment(c)
  \/ \E c \in CommentIds : handleDeleteComment_noCode(c)
  \/ \E c \in CommentIds, st \in ApiStatuses : handleDeleteComment_rejected(c, st)
  \/ \E c \in CommentIds : handleSaveEdit(c)
  \/ \E c \in CommentIds : handleSaveEdit_noCode(c)
  \/ \E c \in CommentIds, st \in ApiStatuses : handleSaveEdit_rejected(c, st)

SpecDetail == InitSettled /\ [][NextDetail]_vars

\* --------------------------------------------- failing browser storage
\* the browser: storage fills up (setItem throws QuotaExceededError), becomes
\* unavailable (every access throws), or recovers
StorageModeChanges(mode) ==
  /\ mode # storageMode
  /\ storageMode' = mode
  /\ Emit(NoToast)
  /\ UNCHANGED <<vaultItem, promptCodes, commentCodes, page, modalVars, homeVars, vaultVars,
                 orphanSync>>

\* the save / remove handlers of both pages while storage may fail
NextFault ==
  \/ \E m \in StorageModes : StorageModeChanges(m)
  \/ \E q \in Prompts : PromptList_handleToggleCardVault(q)
  \/ \E i \in Ids : HomePage_handlePromptClick(i)
  \/ \E i \in 1..Cardinality(Ids) : VaultPage_handlePromptClick(i)
  \/ \E i \in 1..Cardinality(Ids) : VaultPage_handleToggleCardVault(i)
  \/ \E q \in Prompts : handleToggleVault(q)
  \/ handleCloseModal

SpecFault == InitSettled /\ [][NextFault]_vars

\* ------------------------------------------- the store module on its own
StoreCodes == Codes \cup {"code2"}
StoreCommentIds == CommentIds \cup {"c2"}

\* every content the storage key can have
StorageContents ==
  {AbsentItem, UnparseableItem}
    \cup {JSONstringify(l) : l \in VaultLists}
    \cup {NonListItem(v) : v \in {"null", "object", "number"}}

\* localStorage as a page load can find it
InitStore ==
  /\ storageMode \in StorageModes
  /\ vaultItem \in StorageContents
  /\ promptCodes \in [Ids -> StoreCodes \cup {NoCode}]
  /\ commentCodes \in [StoreCommentIds -> StoreCodes \cup {NoCode}]
  /\ page = "home"
  /\ toast = NoToast
  /\ selectedPrompt = NoId
  /\ currentlySaved = FALSE
  /\ detailedPromptData = NoDetail
  /\ detailsLoading = FALSE
  /\ commentsError = NoError
  /\ comments = <<>>
  /\ promptActionError = NoError
  /\ vaultVersion = 0
  /\ savedPromptIds = {}
  /\ VaultPageUnmounted
  /\ orphanSync = NoOrphan
  /\ freshPrompts = NoBatch
  /\ lastCall = NoCall

\* a call leaves the pages alone
StoreCall(call) ==
  /\ lastCall' = call
  /\ toast' = NoToast
  /\ freshPrompts' = NoBatch
  /\ UNCHANGED <<storageMode, page, modalVars, homeVars, vaultVars, orphanSync>>

Call_getVaultPrompts ==
  /\ StoreCall([op |-> "getVaultPrompts", threw |-> FALSE,
                isArray |-> ReturnsArray(vaultItem, storageMode),
                length |-> IF ReturnsArray(vaultItem, storageMode)
                           THEN Len(getVaultPrompts(vaultItem, storageMode))
                           ELSE -1])
  /\ UNCHANGED <<vaultItem, promptCodes, commentCodes>>

Call_isPromptInVault(promptId) ==
  /\ StoreCall(IF isPromptInVault_throws(vaultItem, storageMode)
               THEN [op |-> "isPromptInVault", threw |-> TRUE, ret |-> FALSE]
               ELSE [op |-> "isPromptInVault", threw |-> FALSE,
                     ret |-> isPromptInVault(vaultItem, storageMode, promptId)])
  /\ UNCHANGED <<vaultItem, promptCodes, commentCodes>>

Call_savePromptToVault(promptToSave) ==
  /\ StoreCall([op |-> "savePromptToVault", prompt |-> promptToSave,
                threw |-> FALSE,
                ret |-> savePromptToVault(vaultItem, storageMode, promptToSave).ret])
  /\ vaultItem' = savePromptToVault(vaultItem, storageMode, promptToSave).item
  /\ UNCHANGED <<promptCodes, commentCodes>>

Call_removePromptFromVault(promptId) ==
  /\ StoreCall([op |-> "removePromptFromVault", id |-> promptId,
                threw |-> FALSE,
                ret |-> removePromptFromVault(vaultItem, storageMode, promptId).ret])
  /\ vaultItem' = removePromptFromVault(vaultItem, storageMode, promptId).item
  /\ UNCHANGED <<promptCodes, commentCodes>>

Call_savePromptCode(promptId, code) ==
  /\ StoreCall([op |-> "savePromptCode", id |-> promptId, code |-> code,
                threw |-> FALSE])
  /\ promptCodes' = savePromptCode(promptCodes, storageMode, promptId, code)
  /\ UNCHANGED <<vaultItem, commentCodes>>

Call_removePromptCode(promptId) ==
  /\ StoreCall([op |-> "removePromptCode", id |-> promptId, threw |-> FALSE])
  /\ promptCodes' = removePromptCode(promptCodes, storageMode, promptId)
  /\ UNCHANGED <<vaultItem, commentCodes>>

Call_getPromptCode(promptId) ==
  /\ StoreCall([op |-> "getPromptCode", id |-> promptId, threw |-> FALSE,
                ret |-> getPromptCode(promptCodes, storageMode, promptId)])
  /\ UNCHANGED <<vaultItem, promptCodes, commentCodes>>

Call_saveCommentCode(commentId, code) ==
  /\ StoreCall([op |-> "saveCommentCode", id |-> commentId, code |-> code,
                threw |-> FALSE])
  /\ commentCodes' = saveCommentCode(commentCodes, storageMode, commentId, code)
  /\ UNCHANGED <<vaultItem, promptCodes>>

Call_removeCommentCode(commentId) ==
  /\ StoreCall([op |-> "removeCommentCode", id |-> commentId, threw |-> FALSE])
  /\ commentCodes' = removeCommentCode(commentCodes, storageMode, commentId)
  /\ UNCHANGED <<vaultItem, promptCodes>>

Call_getCommentCode(commentId) ==
  /\ StoreCall([op |-> "getCommentCode", id |-> commentId, threw |-> FALSE,
                ret |-> getCommentCode(commentCodes, storageMode, commentId)])
  /\ UNCHANGED <<vaultItem, promptCodes, commentCodes>>

NextStore ==
  \/ Call_getVaultPrompts
  \/ \E i \in Ids : Call_isPromptInVault(i)
  \/ \E q \in Prompts : Call_savePromptToVault(q)
  \/ \E i \in Ids : Call_removePromptFromVault(i)
  \/ \E i \in Ids, k \in StoreCodes : Call_savePromptCode(i, k)
  \/ \E i \in Ids : Call_removePromptCode(i)
  \/ \E i \in Ids : Call_getPromptCode(i)
  \/ \E c \in StoreCommentIds, k \in StoreCodes : Call_saveCommentCode(c, k)
  \/ \E c \in StoreCommentIds : Call_removeCommentCode(c)
  \/ \E c \in StoreCommentIds : Call_getCommentCode(c)

SpecStore == InitStore /\ [][NextStore]_vars

\* ------------------------------------- Vault page: search filter and sort
Texts(n) == UNION {[1..k -> {"a", "A", " "}] : k \in 0..n}

\* String.prototype.toLowerCase
toLowerCase(t) == [i \in 1..Len(t) |-> IF t[i] = "A" THEN "a" ELSE t[i]]

\* String.prototype.trim
trim(t) ==
  LET inked == {i \in 1..Len(t) : t[i] # " "}
      first == CHOOSE i \in inked : \A j \in inked : i <= j
      last == CHOOSE i \in inked : \A j \in inked : i >= j
  IN IF inked = {} THEN EmptyText ELSE SubSeq(t, first, last)

\* String.prototype.includes
includes(text, part) ==
  \E k \in 0..(Len(text) - Len(part)) : SubSeq(text, k + 1, k + Len(part)) = part

MatchesSearch_titleAndContentOnly(prompt, lowerSearchTerm) ==
  \/ includes(toLowerCase(prompt.title), lowerSearchTerm)
  \/ includes(toLowerCase(prompt.content), lowerSearchTerm)

\* the predicate handed to filtered.filter
MatchesSearch(prompt, lowerSearchTerm) ==
  \/ includes(toLowerCase(prompt.title), lowerSearchTerm)
  \/ includes(toLowerCase(prompt.content), lowerSearchTerm)
  \/ /\ "tags" \in DOMAIN prompt
     /\ \E i \in 1..Len(prompt.tags) :
          includes(toLowerCase(prompt.tags[i]), lowerSearchTerm)

\* displayedPrompts, first part: the filter
FilterBySearch(list, term) ==
  LET Keep(p) == MatchesSearch(p, toLowerCase(term))
  IN IF trim(term) # EmptyText THEN SelectSeq(list, Keep) ELSE list

\* date strings: absent or empty, not parseable by Date, or an ISO timestamp
DateStrings ==
  {[kind |-> "missing"], [kind |-> "invalid"]}
    \cup {[kind |-> "iso", ms |-> n] : n \in 1..MaxTime}

\* JavaScript numbers: NaN or an integer
NaN == [nan |-> TRUE, v |-> 0]
Num(n) == [nan |-> FALSE, v |-> n]
Minus(x, y) == IF x.nan \/ y.nan THEN NaN ELSE Num(x.v - y.v)

\* `new Date(s).getTime()`
getTime(s) == IF s.kind = "iso" THEN Num(s.ms) ELSE NaN

\* `a.created_at ? new Date(a.created_at).getTime() : 0`
TimeOrZero(s) == IF s.kind = "missing" THEN Num(0) ELSE getTime(s)

\* String.prototype.localeCompare on the modelled alphabet
CharRank(c) == CASE c = " " -> 0 [] c = "a" -> 1 [] OTHER -> 2
localeCompare(x, y) ==
  LET n == IF Len(x) < Len(y) THEN Len(x) ELSE Len(y)
      diff == {i \in 1..n : x[i] # y[i]}
      d == CHOOSE i \in diff : \A j \in diff : i <= j
  IN IF diff # {}
     THEN (IF CharRank(x[d]) < CharRank(y[d]) THEN Num(-1) ELSE Num(1))
     ELSE IF Len(x) < Len(y) THEN Num(-1)
     ELSE IF Len(x) > Len(y) THEN Num(1) ELSE Num(0)

\* the comparator handed to filtered.sort
compare(criteria, a, b) ==
  CASE criteria = "title_asc" -> localeCompare(a.title, b.title)
    [] criteria = "title_desc" -> localeCompare(b.title, a.title)
    [] criteria = "created_at_asc" ->
         Minus(TimeOrZero(a.created_at), TimeOrZero(b.created_at))
    [] criteria = "created_at_desc" ->
         Minus(TimeOrZero(b.created_at), TimeOrZero(a.created_at))
    [] criteria = "updated_at_asc" ->
         Minus(TimeOrZero(a.updated_at), TimeOrZero(b.updated_at))
    [] OTHER ->
         Minus(TimeOrZero(b.updated_at), TimeOrZero(a.updated_at))

\* SortCompare of Array.prototype.sort: a NaN from the comparator counts as +0
SortCompare(criteria, a, b) ==
  LET v == compare(criteria, a, b) IN IF v.nan THEN 0 ELSE v.v

\* a consistent comparator for the values of the list (ECMAScript 23.1.3.30)
ConsistentComparator(list, criteria) ==
  LET S == 1..Len(list)
      Sign(n) == IF n < 0 THEN -1 ELSE IF n > 0 THEN 1 ELSE 0
      c(i, j) == Sign(SortCompare(criteria, list[i], list[j]))
  IN /\ \A i \in S : c(i, i) = 0
     /\ \A i, j \in S : c(i, j) = -c(j, i)
     /\ \A i, j, k \in S :
          /\ (c(i, j) = 0 /\ c(j, k) = 0) => c(i, k) = 0
          /\ (c(i, j) < 0 /\ c(j, k) < 0) => c(i, k) < 0
          /\ (c(i, j) < 0 /\ c(j, k) = 0) => c(i, k) < 0
          /\ (c(i, j) = 0 /\ c(j, k) < 0) => c(i, k) < 0

IndexOrders(n) ==
  {f \in [1..n -> 1..n] : \A i, j \in 1..n : i # j => f[i] # f[j]}

\* Array.prototype.sort: the stable sorted order when the comparator is
\* consistent, an implementation-defined order otherwise
SortOutcomes(list, criteria) ==
  LET Sorted(f) ==
        \A i, j \in 1..Len(list) :
          i < j =>
            LET v == SortCompare(criteria, list[f[i]], list[f[j]])
            IN v < 0 \/ (v = 0 /\ f[i] < f[j])
      orders == IF ConsistentComparator(list, criteria)
                THEN {f \in IndexOrders(Len(list)) : Sorted(f)}
                ELSE IndexOrders(Len(list))
  IN {[i \in 1..Len(list) |-> list[f[i]]] : f \in orders}

\* VaultPage.displayedPrompts: the lists the memo can hold
displayedPrompts(list, term, criteria) ==
  SortOutcomes(FilterBySearch(list, term), criteria)

\* a vault prompt with the fields the view reads
ViewPrompt(id, title, content, created, updated) ==
  [prompt_id |-> id, title |-> title, content |-> content,
   created_at |-> created, updated_at |-> updated, comment_count |-> 0]

WithTags(p, tags) ==
  [k \in DOMAIN p \cup {"tags"} |-> IF k = "tags" THEN tags ELSE p[k]]

\* prompts that differ in the searched fields
SearchPrompts(id) ==
  LET base == {ViewPrompt(id, t, c, [kind |-> "iso", ms |-> 1],
                          [kind |-> "iso", ms |-> 1]) :
                 t \in Texts(MaxTextLen), c \in {EmptyText, <<"A">>}}
      tagLists == {<<>>, <<<<"a">>>>, <<<<" ">>, <<"A", "a">>>>}
  IN base \cup {WithTags(p, tl) : p \in base, tl \in tagLists}

\* prompts that differ in the sorted fields
SortPrompts(id) ==
  {WithTags(ViewPrompt(id, t, EmptyText, c, u), <<>>) :
     t \in {<<"a">>, <<"A">>}, c \in DateStrings, u \in DateStrings}

\* the Vault page has loaded and synced the stored list
VaultPageShows(list) ==
  /\ storageMode = "ok"
  /\ vaultItem = JSONstringify(list)
  /\ promptCodes = [i \in Ids |-> NoCode]
  /\ commentCodes = [c \in CommentIds |-> NoCode]
  /\ page = "vault"
  /\ toast = NoToast
  /\ selectedPrompt = NoId
  /\ currentlySaved = FALSE
  /\ detailedPromptData = NoDetail
  /\ detailsLoading = FALSE
  /\ commentsError = NoError
  /\ comments = <<>>
  /\ promptActionError = NoError
  /\ vaultVersion = 0
  /\ savedPromptIds = {}
  /\ vaultPrompts = list
  /\ isInitialLoading = FALSE
  /\ effectPending = FALSE
  /\ isBatchLoading = FALSE
  /\ batchFetches = 1
  /\ batchError = NoError
  /\ localPrompts = <<>>
  /\ isClearConfirmOpen = FALSE
  /\ searchTerm = EmptyText
  /\ sortCriteria = DEFAULT_SORT
  /\ orphanSync = NoOrphan
  /\ freshPrompts = NoBatch
  /\ lastCall = NoCall

InitSearch ==
  \E list \in {<<p>> : p \in SearchPrompts("A")}
                \cup {<<p, q>> : p \in SearchPrompts("A"),
                                 q \in {ViewPrompt("B", t, EmptyText,
                                                   [kind |-> "missing"],
                                                   [kind |-> "missing"]) :
                                          t \in Texts(1)}} :
    VaultPageShows(list)

\* the search input's onChange
VaultPage_setSearchTerm(term) ==
  /\ VaultReady /\ selectedPrompt = NoId /\ ~isClearConfirmOpen
  /\ term # searchTerm
  /\ searchTerm' = term
  /\ Emit(NoToast)
  /\ UNCHANGED <<storeVars, page, modalVars, homeVars, vaultPrompts,
                 isInitialLoading, effectPending, isBatchLoading, batchFetches, batchError,
                 localPrompts, isClearConfirmOpen, sortCriteria, orphanSync>>

NextSearch == \E term \in Texts(MaxTextLen) : VaultPage_setSearchTerm(term)

SpecSearch == InitSearch /\ [][NextSearch]_vars

InitSort ==
  \E list \in {<<p, q>> : p \in SortPrompts("A"), q \in SortPrompts("B")} :
    VaultPageShows(list)

\* the sort select's onChange
VaultPage_setSortCriteria(criteria) ==
  /\ VaultReady /\ selectedPrompt = NoId /\ ~isClearConfirmOpen
  /\ criteria # sortCriteria
  /\ sortCriteria' = criteria
  /\ Emit(NoToast)
  /\ UNCHANGED <<storeVars, page, modalVars, homeVars, vaultPrompts,
                 isInitialLoading, effectPending, isBatchLoading, batchFetches, batchError,
                 localPrompts, isClearConfirmOpen, searchTerm, orphanSync>>

\* VaultPage.clearSort (the button is rendered when the sort is not the default)
VaultPage_clearSort ==
  /\ VaultReady /\ selectedPrompt = NoId /\ ~isClearConfirmOpen
  /\ sortCriteria # DEFAULT_SORT
  /\ sortCriteria' = DEFAULT_SORT
  /\ Emit(NoToast)
  /\ UNCHANGED <<storeVars, page, modalVars, homeVars, vaultPrompts,
                 isInitialLoading, effectPending, isBatchLoading, batchFetches, batchError,
                 localPrompts, isClearConfirmOpen, searchTerm, orphanSync>>

NextSort ==
  \/ \E i \in 1..Len(sortOptions) : VaultPage_setSortCriteria(sortOptions[i])
  \/ VaultPage_clearSort

SpecSort == InitSort /\ [][NextSort]_vars

\* ------------------------------------- the card toggle called as a function
ToggleCall(surface, prompt, saved, ret) ==
  [op |-> "onToggleVault", surface |-> surface, prompt |-> prompt,
   currentlySaved |-> saved, ret |-> ret]

\* PromptCard.handleIconClick on the Home page: onToggleVault(prompt,
\* currentlySaved) is PromptList.handleToggleCardVault
PromptList_onToggleVault(prompt, saved) ==
  /\ HomeReady /\ selectedPrompt = NoId /\ vaultVersion < MaxVersion
  /\ LET r == IF saved
              THEN removePromptFromVault(vaultItem, storageMode, prompt.prompt_id)
              ELSE savePromptToVault(vaultItem, storageMode, prompt)
     IN /\ vaultItem' = r.item
        /\ lastCall' = ToggleCall("home", prompt, saved, r.ret)
        /\ freshPrompts' = NoBatch
        /\ IF r.ret
           THEN /\ toast' = (IF saved THEN ToastRemoved ELSE ToastSaved)
                /\ HomeBump(r.item)
           ELSE /\ toast' = (IF saved THEN ToastRemoveFailed ELSE ToastSaveFailed)
                /\ UNCHANGED homeVars
  /\ UNCHANGED <<storageMode, promptCodes, commentCodes, page, modalVars,
                 vaultVars, orphanSync>>

\* PromptCard.handleIconClick on the Vault page: onToggleVault(prompt,
\* currentlySaved) is VaultPage.handleToggleCardVault
VaultPage_onToggleVault(prompt, saved) ==
  /\ VaultReady /\ selectedPrompt = NoId /\ ~isClearConfirmOpen
  /\ \E i \in 1..Len(vaultPrompts) : vaultPrompts[i] = prompt
  /\ freshPrompts' = NoBatch
  /\ IF saved
     THEN LET r == removePromptFromVault(vaultItem, storageMode, prompt.prompt_id)
          IN /\ vaultItem' = r.item
             /\ lastCall' = ToggleCall("vault", prompt, saved, r.ret)
             /\ IF r.ret
                THEN /\ vaultPrompts' = FilterOut(vaultPrompts, prompt.prompt_id)
                     /\ toast' = ToastRemoved
                ELSE /\ toast' = ToastVaultRemoveFailed
                     /\ UNCHANGED vaultPrompts
     ELSE /\ lastCall' = ToggleCall("vault", prompt, saved, FALSE)
          /\ toast' = NoToast
          /\ UNCHANGED <<vaultItem, vaultPrompts>>
  /\ UNCHANGED <<storageMode, promptCodes, commentCodes, page, modalVars, homeVars,
                 isInitialLoading, effectPending, isBatchLoading, batchFetches, batchError,
                 localPrompts, isClearConfirmOpen, searchTerm, sortCriteria,
                 orphanSync>>

\* the toggle handlers of both list surfaces, with both values of the flag,
\* while storage may fail
NextToggle ==
  \/ \E m \in StorageModes : StorageModeChanges(m)
  \/ \E q \in Prompts, b \in BOOLEAN : PromptList_onToggleVault(q, b)
  \/ \E q \in Prompts, b \in BOOLEAN : VaultPage_onToggleVault(q, b)

SpecToggle == InitSettled /\ [][NextToggle]_vars

\* ------------------------------------ a Vault page session with its sync
\* /vault is opened in a browser whose localStorage already holds a vault:
\* VaultPage has just mounted with its useState initial values
InitVaultMount ==
  /\ storageMode = "ok"
  /\ vaultItem \in {AbsentItem} \cup {JSONstringify(l) : l \in VaultLists}
  /\ promptCodes = [i \in Ids |-> NoCode]
  /\ commentCodes = [c \in CommentIds |-> NoCode]
  /\ page = "vault"
  /\ toast = NoToast
  /\ selectedPrompt = NoId
  /\ currentlySaved = FALSE
  /\ detailedPromptData = NoDetail
  /\ detailsLoading = FALSE
  /\ commentsError = NoError
  /\ comments = <<>>
  /\ promptActionError = NoError
  /\ vaultVersion = 0
  /\ savedPromptIds = {}
  /\ VaultPageUnmounted
  /\ orphanSync = NoOrphan
  /\ freshPrompts = NoBatch
  /\ lastCall = NoCall

\* `await fetchPromptsBatch(promptIds)` comes back: the promise resolves or
\* rejects
BatchFetchSettles ==
  \/ \E f \in BatchResponses : VaultPage_syncSuccess(f)
  \/ \E m \in SyncErrors : VaultPage_syncFailure(m)

NextSync ==
  \/ VaultPage_loadFromLocalStorage
  \/ VaultPage_syncEffect
  \/ BatchFetchSettles
  \/ \E i \in 1..Cardinality(Ids) : VaultPage_handleToggleCardVault(i)
  \/ VaultPage_handleClearVaultClick
  \/ VaultPage_handleConfirmClearVault
  \/ VaultPage_cancelClearVault
  \/ NavigateToHome
  \/ NavigateToVault
  \/ \E S \in SUBSET Ids : Unmounted_syncSuccess(S)
  \/ Unmounted_syncFailure

\* the remote call eventually resolves or rejects
SpecSync == InitVaultMount /\ [][NextSync]_vars /\ WF_vars(BatchFetchSettles)

\* ===================================================================== claims
Persisted == getVaultPrompts(vaultItem, storageMode)

Unique(list) ==
  \A i, j \in 1..Len(list) : list[i].prompt_id = list[j].prompt_id => i = j

\* C1: in every reachable state neither the persisted vault list nor the
\* Vault page's in-memory list holds two entries with the same prompt_id.
C1_NoDuplicateIds == Unique(Persisted) /\ Unique(vaultPrompts)

\* a save onto an id already present in a two-entry vault has happened
C1_Witness ==
  /\ page = "vault" /\ toast = ToastCommentSubmitted
  /\ Len(vaultPrompts) = 2 /\ Len(Persisted) = 2

\* C2: when a successful batch response is applied to the snapshot the sync
\* took of the persisted vault, the vault (the in-memory list and the
\* persisted list) holds exactly the returned ids, in snapshot order, each
\* with the server-provided value (for the persisted entry: the server's
\* comment count, an absent count read as 0); an id the response omits is in
\* neither list.
C2_BatchSyncSuccess ==
  [][(page = "vault" /\ isBatchLoading /\ freshPrompts'.resolved) =>
       LET f == freshPrompts'.map
           Returned(i) == i \in DOMAIN f
           kept == SelectSeq(IdSeqOf(localPrompts), Returned)
           after == getVaultPrompts(vaultItem', storageMode')
       IN /\ IdSeqOf(vaultPrompts') = kept
          /\ \A i \in 1..Len(vaultPrompts') :
                vaultPrompts'[i] = f[vaultPrompts'[i].prompt_id]
          /\ IdSeqOf(after) = kept
          /\ \A i \in 1..Len(after) :
                CountOf(after[i]) = CountOf(f[after[i].prompt_id])
    ]_vars

\* C3: when the batch fetch fails, the sync changes neither the persisted
\* vault nor the in-memory list, a sync error message is set, and the page
\* shows the list loaded from local storage.
C3_BatchSyncFailure ==
  [][(page = "vault" /\ page' = "vault" /\ isBatchLoading /\ ~isBatchLoading'
        /\ ~freshPrompts'.resolved) =>
       /\ vaultPrompts' = vaultPrompts
       /\ vaultItem' = vaultItem
       /\ batchError' \in SyncErrors
       /\ ~isInitialLoading'
    ]_vars

\* a sync has failed and the two-entry list is still shown and persisted
C3_Witness ==
  /\ page = "vault" /\ batchError \in SyncErrors /\ ~isBatchLoading
  /\ Len(vaultPrompts) = 2 /\ vaultPrompts = Persisted

\* C4: after savePromptToVault(P) has stored P, getVaultPrompts() holds
\* exactly one entry with P's id, that entry equals P, and saving P again
\* leaves the stored list unchanged.
C4_SaveIsIdempotentUpsert ==
  \A P \in Prompts :
    LET r == savePromptToVault(vaultItem, storageMode, P)
        list == getVaultPrompts(r.item, storageMode)
        hits == {i \in 1..Len(list) : list[i].prompt_id = P.prompt_id}
    IN /\ r.ret
       /\ Cardinality(hits) = 1
       /\ \A i \in hits : list[i] = P
       /\ savePromptToVault(r.item, storageMode, P).item = r.item

\* a prompt was saved into a vault that now holds two entries
C4_Witness == toast = ToastSaved /\ Len(Persisted) = 2

\* C5: saving an id already in the vault replaces the entry at the same
\* index with the new value (no field merge): length and every other entry
\* are unchanged; saving an id not in the vault appends it at the end.
C5_SaveReplacesInPlace ==
  \A P \in Prompts :
    LET before == Persisted
        after == getVaultPrompts(
                   savePromptToVault(vaultItem, storageMode, P).item, storageMode)
        k == FindIndex(before, P.prompt_id)
    IN IF P.prompt_id \in IdsOf(before)
       THEN /\ Len(after) = Len(before)
            /\ after[k] = P
            /\ \A i \in 1..Len(before) : i # k => after[i] = before[i]
       ELSE after = before \o <<P>>

\* the first of two persisted entries has just been overwritten in place
C5_Witness ==
  /\ page = "home" /\ toast = ToastCommentSubmitted
  /\ Len(Persisted) = 2 /\ Persisted[1].prompt_id = selectedPrompt

\* C6: removePromptFromVault(id) returns true only if an entry with that id
\* was removed from the persisted list; for an id not in the vault it
\* returns false and leaves the stored value unchanged.
C6_RemoveReportsRemoval ==
  \A id \in Ids :
    LET r == removePromptFromVault(vaultItem, storageMode, id)
        after == getVaultPrompts(r.item, storageMode)
    IN /\ r.ret => (id \in IdsOf(Persisted) /\ id \notin IdsOf(after)
                     /\ after = FilterOut(Persisted, id))
       /\ id \notin IdsOf(Persisted) => (~r.ret /\ r.item = vaultItem)

\* a removal of an id that is not in the persisted vault has been attempted
C6_Witness ==
  /\ toast \in {ToastRemoveFailed, ToastVaultRemoveFailed}
  /\ Len(Persisted) > 0

\* C7: after clearVault() returns, getVaultPrompts() is empty and
\* isPromptInVault(id) is false for every id, whatever the storage does;
\* clearVault never throws to its caller.
C7_ClearEmptiesVault ==
  \A m \in StorageModes :
    LET r == clearVault(vaultItem, m)
    IN /\ ~r.threw
       /\ getVaultPrompts(r.item, m) = <<>>
       /\ \A id \in Ids : ~isPromptInVault(r.item, m, id)

\* the Vault page has just cleared a vault
C7_Witness ==
  /\ toast = ToastCleared /\ vaultItem = AbsentItem /\ vaultPrompts = <<>>
  /\ \A id \in Ids : ~isPromptInVault(vaultItem, storageMode, id)

NonNegativeCounts(list) ==
  \A i \in 1..Len(list) :
    "comment_count" \in DOMAIN list[i] => list[i].comment_count >= 0

EntryOf(list, id) == list[FindIndex(list, id)]

HomeAddThenDelete(id) ==
  getVaultPrompts(
    HomePage_handleCommentDeleted(
      HomePage_handleCommentAdded(vaultItem, storageMode, id), storageMode, id),
    storageMode)

\* the in-memory list after comment-added then comment-deleted on the Vault page
VaultAddThenDelete_state(id) ==
  VaultPage_handleCommentDeleted_state(
    VaultPage_handleCommentAdded_state(vaultPrompts, id), id)

\* the persisted list after comment-added then comment-deleted on the Vault page
VaultAddThenDelete_store(id) ==
  getVaultPrompts(
    VaultPage_handleCommentDeleted_store(
      VaultPage_handleCommentAdded_store(vaultItem, storageMode, vaultPrompts, id),
      storageMode, VaultPage_handleCommentAdded_state(vaultPrompts, id), id),
    storageMode)

\* C9: applying the comment delta +1 and then -1 to the vaulted prompt shown
\* in the modal returns its stored comment count (persisted and in-memory,
\* an absent count read as 0) to the original value.
C9_AddThenDeleteRestoresCount ==
  selectedPrompt # NoId =>
    /\ (page = "home" /\ selectedPrompt \in IdsOf(Persisted)) =>
          CountOf(EntryOf(HomeAddThenDelete(selectedPrompt), selectedPrompt))
            = CountOf(EntryOf(Persisted, selectedPrompt))
    /\ (VaultReady /\ selectedPrompt \in IdsOf(vaultPrompts)) =>
          CountOf(EntryOf(VaultAddThenDelete_state(selectedPrompt), selectedPrompt))
            = CountOf(EntryOf(vaultPrompts, selectedPrompt))
    /\ (VaultReady /\ selectedPrompt \in IdsOf(vaultPrompts)
          /\ selectedPrompt \in IdsOf(Persisted)) =>
          CountOf(EntryOf(VaultAddThenDelete_store(selectedPrompt), selectedPrompt))
            = CountOf(EntryOf(Persisted, selectedPrompt))

\* C10: a comment-added or comment-deleted event for a prompt id that is not
\* in the persisted vault leaves the persisted vault unchanged.
C10_CommentEventOnUnvaultedIsNoOp ==
  [][(toast' \in {ToastCommentSubmitted, ToastCommentDeleted}
        /\ selectedPrompt # NoId
        /\ selectedPrompt \notin IdsOf(Persisted)) =>
       vaultItem' = vaultItem
    ]_vars

\* C11: when an edit is confirmed by the server through the detail view, the
\* persisted vault holds the server-confirmed prompt at the id's old position
\* (every other entry untouched) if the id was in the persisted vault before
\* the edit, and is unchanged if it was not: an edit never adds a prompt.
C11_EditUpdatesVaultIffPresent ==
  [][(toast' = ToastPromptUpdated /\ selectedPrompt # NoId) =>
       LET u == detailedPromptData'
           before == Persisted
           after == getVaultPrompts(vaultItem', storageMode')
           k == FindIndex(before, u.prompt_id)
       IN IF u.prompt_id \in IdsOf(before)
          THEN /\ IdSeqOf(after) = IdSeqOf(before)
               /\ after[k] = u
               /\ \A i \in 1..Len(before) : i # k => after[i] = before[i]
          ELSE after = before
    ]_vars

\* C12: an edit answered with 403 fails with the permission error and leaves
\* the persisted vault, the in-memory vault list, the detail data shown in the
\* modal and the stored modification codes as they were.
C12_RejectedEditChangesNothing ==
  [][(selectedPrompt # NoId
        /\ toast' = ToastEditFailed(ApiErrorMessage("403", selectedPrompt))) =>
       /\ promptActionError' = ApiErrorMessage("403", selectedPrompt)
       /\ vaultItem' = vaultItem
       /\ vaultPrompts' = vaultPrompts
       /\ detailedPromptData' = detailedPromptData
       /\ promptCodes' = promptCodes
       /\ selectedPrompt' = selectedPrompt
    ]_vars

\* on the Vault page an edit of a vaulted prompt whose detail is loaded was
\* rejected with the permission error
C12_Witness ==
  /\ page = "vault" /\ selectedPrompt \in IdsOf(Persisted)
  /\ selectedPrompt \in IdsOf(vaultPrompts)
  /\ toast = ToastEditFailed(ApiErrorMessage("403", selectedPrompt))
  /\ promptActionError = ApiErrorMessage("403", selectedPrompt)
  /\ detailedPromptData # NoDetail
  /\ promptCodes[selectedPrompt] # NoCode

SaveRemoveToasts ==
  {ToastSaved, ToastRemoved, ToastVaultSaved,
   ToastSaveFailed, ToastRemoveFailed, ToastVaultSaveFailed,
   ToastVaultRemoveFailed}

SaveRemoveFailedToasts ==
  {ToastSaveFailed, ToastRemoveFailed, ToastVaultSaveFailed,
   ToastVaultRemoveFailed}

ReadableList == storageMode # "unavailable" /\ vaultItem.kind = "array"

\* C14: whatever the storage key holds (nothing, a valid list, unparseable
\* text, parseable JSON that is not a list), getVaultPrompts and isPromptInVault
\* do not throw, and when the content is not a readable list getVaultPrompts
\* returns the empty list and isPromptInVault returns false.
C14_ReadersTolerateAnyContent ==
  /\ lastCall.op = "getVaultPrompts" =>
       /\ ~lastCall.threw
       /\ ~ReadableList => (lastCall.isArray /\ lastCall.length = 0)
  /\ lastCall.op = "isPromptInVault" =>
       /\ ~lastCall.threw
       /\ ~ReadableList => ~lastCall.ret

\* C15: while the Home page is mounted vaultVersion never decreases; a save or
\* remove issued from the Home page (card toggle or detail modal) increments it
\* by one exactly when the store call returned true, and leaves it unchanged
\* when the store call returned false.
C15_VersionBumpsExactlyOnSuccess ==
  [][(page = "home" /\ page' = "home") =>
       /\ vaultVersion' >= vaultVersion
       /\ toast' \in {ToastSaved, ToastSaveFailed} =>
            LET success ==
                  \E q \in Prompts :
                    LET r == savePromptToVault(vaultItem, storageMode, q)
                    IN r.ret /\ r.item = vaultItem'
            IN vaultVersion' = IF success THEN vaultVersion + 1 ELSE vaultVersion
       /\ toast' \in {ToastRemoved, ToastRemoveFailed} =>
            LET success ==
                  \E i \in Ids :
                    LET r == removePromptFromVault(vaultItem, storageMode, i)
                    IN r.ret /\ r.item = vaultItem'
            IN vaultVersion' = IF success THEN vaultVersion + 1 ELSE vaultVersion
    ]_vars

\* on the Home page a remove failed after an earlier save or remove succeeded
C15_Witness ==
  /\ page = "home" /\ toast = ToastRemoveFailed
  /\ vaultVersion = 1 /\ storageMode # "ok"
  /\ Persisted # <<>> \/ vaultItem # AbsentItem

\* C16: while localStorage accepts writes, for the prompt code map and for the
\* comment code map: after save(id, c) get(id) returns c and no other entry
\* changes, so saving the same pair again changes nothing and a later
\* save(id, c2) overwrites c. In every storage mode: remove(id) of an absent id
\* leaves the map unchanged, get of a missing id returns absent and get never
\* throws or changes anything, and an operation on one map changes neither the
\* other map nor the vault list.
C16_CodeMapsAreIndependentUpserts ==
  [][LET call == lastCall'
         id == call.id
     IN /\ call.op = "savePromptCode" =>
             /\ storageMode = "ok" =>
                  /\ getPromptCode(promptCodes', storageMode', id) = call.code
                  /\ \A j \in Ids \ {id} : promptCodes'[j] = promptCodes[j]
                  /\ promptCodes[id] = call.code => promptCodes' = promptCodes
             /\ ~call.threw
             /\ commentCodes' = commentCodes /\ vaultItem' = vaultItem
        /\ call.op = "removePromptCode" =>
             /\ promptCodes[id] = NoCode => promptCodes' = promptCodes
             /\ storageMode = "ok" =>
                  /\ promptCodes'[id] = NoCode
                  /\ \A j \in Ids \ {id} : promptCodes'[j] = promptCodes[j]
             /\ ~call.threw
             /\ commentCodes' = commentCodes /\ vaultItem' = vaultItem
        /\ call.op = "getPromptCode" =>
             /\ promptCodes[id] = NoCode => call.ret = NoCode
             /\ storageMode # "unavailable" => call.ret = promptCodes[id]
             /\ ~call.threw
             /\ UNCHANGED <<promptCodes, commentCodes, vaultItem>>
        /\ call.op = "saveCommentCode" =>
             /\ storageMode = "ok" =>
                  /\ getCommentCode(commentCodes', storageMode', id) = call.code
                  /\ \A j \in StoreCommentIds \ {id} :
                       commentCodes'[j] = commentCodes[j]
                  /\ commentCodes[id] = call.code => commentCodes' = commentCodes
             /\ ~call.threw
             /\ promptCodes' = promptCodes /\ vaultItem' = vaultItem
        /\ call.op = "removeCommentCode" =>
             /\ commentCodes[id] = NoCode => commentCodes' = commentCodes
             /\ storageMode = "ok" =>
                  /\ commentCodes'[id] = NoCode
                  /\ \A j \in StoreCommentIds \ {id} :
                       commentCodes'[j] = commentCodes[j]
             /\ ~call.threw
             /\ promptCodes' = promptCodes /\ vaultItem' = vaultItem
        /\ call.op = "getCommentCode" =>
             /\ commentCodes[id] = NoCode => call.ret = NoCode
             /\ storageMode # "unavailable" => call.ret = commentCodes[id]
             /\ ~call.threw
             /\ UNCHANGED <<promptCodes, commentCodes, vaultItem>>
    ]_vars

\* a comment code was overwritten by a later save while another comment's
\* code, a prompt code and a vault list are stored
C16_Witness ==
  /\ lastCall.op = "saveCommentCode" /\ storageMode = "ok"
  /\ lastCall.id = "c1" /\ lastCall.code = "code2"
  /\ commentCodes = [c \in StoreCommentIds |->
                        IF c = "c1" THEN "code2" ELSE "code1"]
  /\ promptCodes["A"] = "code1"
  /\ vaultItem.kind = "array"

\* C17: when a prompt or a comment is created and the response carries a
\* modification code, that code is what is stored for the new id afterwards,
\* and a stored code stays as it is, so the entity stays editable and deletable
\* from this browser, on every step but the successful deletion of that entity
\* on the server.
C17_CodeStoredUntilDeleted ==
  [][/\ toast' = ToastPromptCreated =>
          \E i \in Ids, k \in Codes :
            /\ promptCodes[i] = NoCode
            /\ promptCodes' = [promptCodes EXCEPT ![i] = k]
            /\ getPromptCode(promptCodes', storageMode', i) = k
     /\ toast' = ToastCommentSubmitted =>
          \E c \in CommentIds, k \in Codes :
            /\ commentCodes' = [commentCodes EXCEPT ![c] = k]
            /\ getCommentCode(commentCodes', storageMode', c) = k
     /\ \A i \in Ids :
          (promptCodes[i] # NoCode /\ promptCodes'[i] # promptCodes[i]) =>
            (toast' = ToastPromptDeleted /\ selectedPrompt = i)
     /\ \A c \in CommentIds :
          (commentCodes[c] # NoCode /\ commentCodes'[c] # commentCodes[c]) =>
            toast' = ToastCommentDeleted
    ]_vars

\* both prompts were created from this browser, a comment was submitted, and
\* after an edit of one prompt all three codes are still stored
C17_Witness ==
  /\ \A i \in Ids : promptCodes[i] # NoCode
  /\ commentCodes["c1"] # NoCode
  /\ toast = ToastPromptUpdated

\* the step is the answer "not found" to a direct operation on the prompt shown
\* in the detail view: fetchPromptDetail, updatePrompt, deletePrompt or
\* createComment
AnsweredNotFound ==
  /\ selectedPrompt # NoId
  /\ LET msg == ApiErrorMessage("404", selectedPrompt)
     IN \/ detailsLoading /\ ~detailsLoading' /\ commentsError' = msg
        \/ toast' = ToastEditFailed(msg)
        \/ toast' = ToastDeleteFailed(msg)
        \/ toast' = ToastCommentFailed(msg)

\* C18: when a direct operation on a vaulted prompt (fetch detail, update,
\* delete, create comment) is answered with not-found, the prompt is no longer
\* in the persisted vault nor in the Vault page's list afterwards.
C18_NotFoundDropsFromVault ==
  [][(AnsweredNotFound /\ selectedPrompt \in IdsOf(Persisted)) =>
       /\ selectedPrompt \notin
            IdsOf(getVaultPrompts(vaultItem', storageMode'))
       /\ page = "vault" => selectedPrompt \notin IdsOf(vaultPrompts')
    ]_vars

\* a is part of b: the characters of b from some position on, as many as a
\* has, are those of a
IsSubstring(a, b) ==
  \E i, j \in 0..Len(b) : i <= j /\ SubSeq(b, i + 1, j) = a

\* x with every upper-case letter replaced by its lower-case letter
LowerCased(x) == [i \in 1..Len(x) |-> IF x[i] = "A" THEN "a" ELSE x[i]]

\* the prompt's title, content or one of its tags contains the term, case
\* ignored
SearchHit(p, term) ==
  \/ IsSubstring(LowerCased(term), LowerCased(p.title))
  \/ IsSubstring(LowerCased(term), LowerCased(p.content))
  \/ /\ "tags" \in DOMAIN p
     /\ \E i \in 1..Len(p.tags) :
          IsSubstring(LowerCased(term), LowerCased(p.tags[i]))

\* C19: the list the Vault page displays holds exactly the vault prompts for
\* which the lower-cased search term is a substring of the lower-cased title,
\* of the lower-cased content or of a lower-cased tag, each once; with an empty
\* or whitespace-only term it holds every vault prompt.
C19_SearchFilterIsSubstringMatch ==
  \A shown \in displayedPrompts(vaultPrompts, searchTerm, sortCriteria) :
    LET blank == \A i \in 1..Len(searchTerm) : searchTerm[i] = " "
        hits == {i \in 1..Len(vaultPrompts) :
                   blank \/ SearchHit(vaultPrompts[i], searchTerm)}
    IN /\ {shown[i] : i \in 1..Len(shown)} = {vaultPrompts[i] : i \in hits}
       /\ Len(shown) = Cardinality(hits)

\* with the term "A", of two prompts one is displayed because a tag of it
\* holds "a" (its title and content do not) and the other is filtered out
C19_Witness ==
  /\ Len(vaultPrompts) = 2
  /\ searchTerm = <<"A">>
  /\ \E shown \in displayedPrompts(vaultPrompts, searchTerm, sortCriteria) :
       /\ Len(shown) = 1
       /\ shown[1].prompt_id = "A"
       /\ ~includes(shown[1].title, <<"A">>)
       /\ ~includes(toLowerCase(shown[1].title), <<"a">>)
       /\ ~includes(toLowerCase(shown[1].content), <<"a">>)

\* milliseconds of a date string, 0 when it is missing or unparseable
EpochOrZero(s) == IF s.kind = "iso" THEN s.ms ELSE 0

\* C20: under the created / updated sort keys the comparator gives, for any
\* two vault prompts, the difference of their timestamps with a missing or
\* unparseable date counted as epoch 0 (a defined number), and the displayed
\* order is the one order these keys determine.
C20_DatesDefaultToEpochZero ==
  sortCriteria \in {"created_at_asc", "created_at_desc",
                    "updated_at_asc", "updated_at_desc"} =>
    LET key(p) == IF sortCriteria \in {"created_at_asc", "created_at_desc"}
                  THEN EpochOrZero(p.created_at)
                  ELSE EpochOrZero(p.updated_at)
        asc == sortCriteria \in {"created_at_asc", "updated_at_asc"}
        expected(a, b) == IF asc THEN key(a) - key(b) ELSE key(b) - key(a)
    IN /\ \A i, j \in 1..Len(vaultPrompts) :
            LET v == compare(sortCriteria, vaultPrompts[i], vaultPrompts[j])
            IN ~v.nan /\ v.v = expected(vaultPrompts[i], vaultPrompts[j])
       /\ \A shown \in displayedPrompts(vaultPrompts, searchTerm, sortCriteria) :
            \A i, j \in 1..Len(shown) :
              i < j => expected(shown[i], shown[j]) <= 0

C22_ResponseKeepsLocalRemovals ==
  [][/\ (page = "vault" /\ isBatchLoading /\ freshPrompts'.resolved) =>
          \A id \in IdsOf(localPrompts) \ IdsOf(Persisted) :
            id \notin IdsOf(vaultPrompts')
     /\ (page' = "vault" /\ ~isInitialLoading' /\ ~effectPending'
           /\ ~isBatchLoading') =>
          IdsOf(vaultPrompts') \subseteq
            IdsOf(getVaultPrompts(vaultItem', storageMode'))
    ]_vars

\* C23: while a Vault page is mounted it issues at most one batch fetch:
\* neither a save, a remove, a comment delta, an edit, the reload on closing
\* the modal, a clear nor a failed sync starts another one.
C23_AtMostOneBatchFetch == page = "vault" => batchFetches <= 1

\* the one sync of this session failed, the list from local storage is shown
\* and a comment was then added to a vault prompt
C23_Witness ==
  /\ page = "vault" /\ batchFetches = 1 /\ ~isBatchLoading
  /\ batchError \in SyncErrors
  /\ toast = ToastCommentSubmitted
  /\ vaultPrompts # <<>>

\* C24: on the mounted Vault page isBatchLoading is true exactly while a batch
\* fetch is in flight (the sync holds its snapshot), and, the remote call
\* eventually resolving or rejecting, a page that is syncing eventually stops
\* syncing, on the success and on the failure path, after which Clear Vault is
\* enabled again whenever the page is idle with a non-empty list.
C24_SyncingEventuallyEnds ==
  /\ [](page = "vault" => (isBatchLoading <=> localPrompts # <<>>))
  /\ (page = "vault" /\ isBatchLoading) ~> ~isBatchLoading
  /\ []((VaultReady /\ ~isBatchLoading /\ vaultPrompts # <<>>
          /\ selectedPrompt = NoId /\ ~isClearConfirmOpen)
         => ENABLED VaultPage_handleClearVaultClick)

\* the sync of this session failed and Clear Vault was then clicked
C24_Witness ==
  /\ page = "vault" /\ batchFetches = 1 /\ ~isBatchLoading
  /\ batchError \in SyncErrors
  /\ isClearConfirmOpen /\ vaultPrompts # <<>>

\* C25: when the server confirms the deletion of the prompt shown in the detail
\* view, afterwards no modification code is stored for it and it is neither in
\* the persisted vault nor in the Vault page's in-memory list; when the deletion
\* is rejected (permission error, not found, network error) the stored codes,
\* the persisted vault and the in-memory list are unchanged.
C25_DeleteIsAllOrNothing ==
  [][selectedPrompt # NoId =>
       /\ toast' = ToastPromptDeleted =>
            /\ getPromptCode(promptCodes', storageMode', selectedPrompt) = NoCode
            /\ selectedPrompt \notin
                 IdsOf(getVaultPrompts(vaultItem', storageMode'))
            /\ page = "vault" => selectedPrompt \notin IdsOf(vaultPrompts')
       /\ (\E st \in ApiStatuses :
             toast' = ToastDeleteFailed(ApiErrorMessage(st, selectedPrompt))) =>
            /\ promptCodes' = promptCodes
            /\ commentCodes' = commentCodes
            /\ vaultItem' = vaultItem
            /\ vaultPrompts' = vaultPrompts
    ]_vars

\* on the Vault page prompt A, vaulted next to B, was deleted: its code is
\* gone, B's code is kept and only B is left in both lists
C25_Witness ==
  /\ page = "vault" /\ toast = ToastPromptDeleted
  /\ promptCodes["A"] = NoCode /\ promptCodes["B"] # NoCode
  /\ IdSeqOf(vaultPrompts) = <<"B">> /\ Persisted = vaultPrompts

\* the toasts that end an edit or a delete for which the remote call was
\* issued (resolved or rejected)
PromptCallToasts(promptId) ==
  {ToastPromptUpdated, ToastPromptDeleted}
    \cup {ToastEditFailed(ApiErrorMessage(st, promptId)) : st \in ApiStatuses}
    \cup {ToastDeleteFailed(ApiErrorMessage(st, promptId)) : st \in ApiStatuses}

CommentCallToasts(commentId) ==
  {ToastCommentUpdated, ToastCommentDeleted}
    \cup {ToastCommentEditFailed(CommentApiErrorMessage("update", st, commentId)) :
            st \in ApiStatuses}
    \cup {ToastCommentDeleteFailed(CommentApiErrorMessage("delete", st, commentId)) :
            st \in ApiStatuses}

\* C26: while no modification code is stored for the prompt shown in the
\* detail view (for a displayed comment), no step is the outcome of a remote
\* edit or delete call for that prompt (comment); the edit or delete attempt
\* ends with the "modification code not found" message and leaves the persisted
\* vault, the in-memory vault list, both code maps, the detail shown and the
\* displayed comment list unchanged.
C26_NoCodeNoCall ==
  [][selectedPrompt # NoId =>
       /\ getPromptCode(promptCodes, storageMode, selectedPrompt) = NoCode =>
            toast' \notin PromptCallToasts(selectedPrompt)
       /\ \A c \in CommentIds :
            (\A k \in CommentIds :
               getCommentCode(commentCodes, storageMode, k) = NoCode) =>
              toast' \notin CommentCallToasts(c)
       /\ toast' \in {ToastCannotSave, ToastCannotDelete} =>
            /\ \/ getPromptCode(promptCodes, storageMode, selectedPrompt) = NoCode
               \/ \E c \in CommentIds :
                    /\ IsDisplayed(comments, c)
                    /\ getCommentCode(commentCodes, storageMode, c) = NoCode
            /\ vaultItem' = vaultItem
            /\ vaultPrompts' = vaultPrompts
            /\ promptCodes' = promptCodes
            /\ commentCodes' = commentCodes
            /\ comments' = comments
            /\ detailedPromptData' = detailedPromptData
            /\ selectedPrompt' = selectedPrompt
    ]_vars

\* the delete of a displayed comment without a stored code was refused in the
\* detail view of a vaulted prompt whose own code is stored
C26_Witness ==
  /\ toast = ToastCannotDelete
  /\ selectedPrompt \in IdsOf(Persisted)
  /\ promptCodes[selectedPrompt] # NoCode
  /\ comments = <<"c1">> /\ commentCodes["c1"] = NoCode

\* C27: when a successful batch response is applied and nothing has changed the
\* vault since the sync took its snapshot (the persisted list and the in-memory
\* list are still the snapshot), the persisted list afterwards equals the
\* in-memory list: same ids, same order, same field values.
C27_SyncPersistsWhatItShows ==
  [][(page = "vault" /\ isBatchLoading /\ freshPrompts'.resolved
        /\ Persisted = localPrompts /\ vaultPrompts = localPrompts) =>
       getVaultPrompts(vaultItem', storageMode') = vaultPrompts'
    ]_vars

\* the entries the storage key holds (none when it holds no list)
StoredList(item) == IF item.kind = "array" THEN item.value ELSE <<>>

\* C28: a call of savePromptToVault(P) or removePromptFromVault(id), whatever
\* the storage holds and however it behaves, leaves the stored entries with a
\* different prompt_id as they are and in the same relative order, works on the
\* list stored at the time of the call (a successful save stores P at P's old
\* position or at the end, a successful remove drops exactly id), and changes
\* neither the prompt-code nor the comment-code map.
C28_StoreMutationTouchesOwnIdOnly ==
  [][lastCall'.op \in {"savePromptToVault", "removePromptFromVault"} =>
       LET id == IF lastCall'.op = "savePromptToVault"
                 THEN lastCall'.prompt.prompt_id ELSE lastCall'.id
           before == StoredList(vaultItem)
           after == StoredList(vaultItem')
       IN /\ FilterOut(after, id) = FilterOut(before, id)
          /\ promptCodes' = promptCodes
          /\ commentCodes' = commentCodes
          /\ (lastCall'.op = "savePromptToVault" /\ lastCall'.ret) =>
               /\ Len(after) = Len(FilterOut(before, id)) + 1
               /\ \E i \in 1..Len(after) : after[i] = lastCall'.prompt
          /\ (lastCall'.op = "removePromptFromVault" /\ lastCall'.ret) =>
               after = FilterOut(before, id)
          /\ ~lastCall'.ret => vaultItem' = vaultItem
    ]_vars

\* a prompt was saved into a stored list of two entries: it is the first entry,
\* the other prompt is still the second, and codes of both kinds are stored
C28_Witness ==
  /\ lastCall.op = "savePromptToVault" /\ lastCall.ret
  /\ vaultItem.kind = "array" /\ Len(vaultItem.value) = 2
  /\ vaultItem.value[1] = lastCall.prompt
  /\ vaultItem.value[2].prompt_id # lastCall.prompt.prompt_id
  /\ promptCodes["A"] # NoCode /\ commentCodes["c1"] # NoCode

\* the toasts that end a card toggle, a modal save or remove, a prompt edit, a
\* prompt delete and a comment delta
HomeOperationToasts ==
  {ToastSaved, ToastRemoved, ToastPromptUpdated, ToastPromptDeleted,
   ToastCommentSubmitted, ToastCommentDeleted}

\* C29: on the Home page, a card toggle, modal save or remove, prompt edit,
\* prompt delete or comment delta that changes the persisted vault leaves
\* vaultVersion strictly greater, and the saved-id set that marks the cards is
\* then the set of ids in the persisted vault.
C29_HomeChangeBumpsVersion ==
  [][(page = "home" /\ page' = "home" /\ toast' \in HomeOperationToasts
        /\ vaultItem' # vaultItem) =>
       /\ vaultVersion' > vaultVersion
       /\ savedPromptIds' = IdsOf(getVaultPrompts(vaultItem', storageMode'))
    ]_vars

\* C30: on the Vault page, the step that ends the initial load sets the
\* in-memory list to the persisted vault and starts no fetch; a batch fetch
\* starts only after that load and only when the persisted vault is non-empty at
\* that moment, with that list as its snapshot; so while the persisted vault is
\* empty no fetch is issued and isBatchLoading does not become true.
C30_LoadThenFetchIfNonEmpty ==
  [][page' = "vault" =>
       /\ (page = "vault" /\ isInitialLoading /\ ~isInitialLoading') =>
            /\ vaultPrompts' = Persisted
            /\ ~isBatchLoading' /\ batchFetches' = 0
       /\ (batchFetches' # batchFetches \/ (~isBatchLoading /\ isBatchLoading')) =>
            /\ ~isInitialLoading
            /\ Persisted # <<>>
            /\ localPrompts' = Persisted
            /\ isBatchLoading' /\ batchFetches' = batchFetches + 1
    ]_vars

\* the Vault page was opened on an empty vault: the load and the effect have
\* run, no fetch was issued and the page is not syncing
C30_Witness ==
  /\ page = "vault" /\ ~isInitialLoading /\ ~effectPending
  /\ vaultItem = AbsentItem /\ vaultPrompts = <<>>
  /\ batchFetches = 0 /\ ~isBatchLoading

====
